---- MODULE Spec2Model ----
(***************************************************************************)
(* SC.Observable (frameworks/costello/mixins/observable.js): key-value     *)
(* observing on one observable object.                                     *)
(*                                                                         *)
(* The object under study has four properties:                             *)
(*   a : a plain property, undefined after construction;                   *)
(*   q : function() { return this.get('a') || 0 }.property('a').cacheable()*)
(*   p : function() { return this.get('q') }.property('q').cacheable()     *)
(*   c : function(key, value) { if (value !== undefined) this._c = value;  *)
(*                              return this._c }.property()                *)
(* c is either volatile or not (isVolatile).  Observers are (target,       *)
(* method) pairs; an observer that is invoked may do nothing, set a        *)
(* property or get a property of the object.                               *)
(*                                                                         *)
(* _notifyPropertyObservers runs observers, so it is modelled step by      *)
(* step (frame); every other method is one action.  While a flush is in    *)
(* progress only the flush can take steps: the code is single threaded.    *)
(***************************************************************************)
EXTENDS Integers, Sequences, FiniteSets, Bags, TLC

\* ----------------------------------------------------------------- bounds
MaxRevision == 2      \* calls of propertyDidChange / flushes explored
MaxLevel == 2         \* nesting depth of beginPropertyChanges explored
MaxObservers == 2     \* observer registrations held at one time
RevisionWindow == 3   \* revisions told apart where they are kept modulo
MaxFired == 2         \* invocations of one observer counted in one call
MaxChains == 3        \* chains created by addObserver for dotted paths

\* ---------------------------------------------------------------- fixture
Undef == "undefined"
NoKey == "null"
Star == "*"

PlainKeys == {"a"}
ComputedKeys == {"q", "p", "c"}
Keys == PlainKeys \cup ComputedKeys
Zero == "0"
Vals == {"1", "2"}
AnyVal == Vals \cup {Zero, Undef}

\* property('a') / property('q') declarations of the computed properties
DeclaredDependencies == {<<"q", "a">>, <<"p", "q">>}

\* (target, method) pairs that are used as observers; "this" is the object
ObserverPairs == {<<"this", "f">>, <<"this", "g">>}
ObservableKeys == {"a", "q"}

\* dotted paths observed through chains, and the (target, method) pairs
DottedPaths == {"x.a", "x.b"}
ChainPairs == ObserverPairs \cup {<<"other", "f">>}
NoRemoval == [path |-> NoKey, member |-> <<>>, live0 |-> {}]

\* a method name that target[method] does not resolve (lines 546, 589)
MissingPair == <<"this", "missing">>
Resolvable(member) == member # MissingPair

\* observeOnce registers its handler function as the method
OncePair == <<"this", "handler">>

\* didChangeFor: the contexts and the key lists it is called with
Contexts == {"render", "layout"}
KeyLists == {<<"a">>, <<"q">>, <<"a", "q">>}
NoRevision == -1      \* seenRevisions[key] of a key not seen: undefined
Never == "never"

\* SC.Substate: the events sent to a state. "onGo" and "onAny" are names of
\* event handlers, "watch" of a state observe handler; "toString" is a
\* member every object literal inherits from Object.prototype.
Events == {"go", "undo", "halt", "onGo", "watch", "toString",
           "_sc_handleEventTransition"}
ObjectPrototype == {"toString"}
NoHandler == "none"

\* the regular expressions given to handleEvents, and event.match(regexp)
RegExps == {"/^go/", "/o$/"}
matchRegExp(event, regexp) ==
  CASE regexp = "/^go/" -> event \in {"go"}
    [] regexp = "/o$/" -> event \in {"go", "undo", "onGo"}
    [] OTHER -> FALSE

\* function () {...}.handleEvents(...) declarations of a state, as
\* (name, events) in the order for (key in this) meets them
HandlerNames == {"onGo", "onAny"}
EventLists == {<<"go">>, <<"/o$/">>, <<"/^go/", "undo">>}
HandlerDeclarations ==
  {s \in UNION {[1..n -> [name : HandlerNames, events : EventLists]] :
                  n \in 0..Cardinality(HandlerNames)} :
     \A i, j \in DOMAIN s : i # j => s[i].name # s[j].name}

\* the arguments of stateObserves: a path is written as the prefix that
\* _configureAllStateObserveHandlers looks for and the rest; with the
\* prefix "" the rest is a key or a path from the global object
KeyArg(key) == [prefix |-> "", path |-> key]
StarArg(path) == [prefix |-> "*", path |-> path]
LocalArg(key) == [prefix |-> ".", path |-> key]
ThisArg(key) == [prefix |-> "this.", path |-> key]
EmptyArg == [prefix |-> "", path |-> ""]

\* function () {...}.stateObserves(...) declarations: the arguments are
\* valid (non-empty strings) or not
ObserveDeclarations ==
  {<<>>, <<[name |-> "watch", args |-> <<KeyArg("a")>>]>>,
   <<[name |-> "watch", args |-> <<EmptyArg>>]>>}

\* declarations that cover the kinds of path
ObservePathDeclarations ==
  {<<[name |-> "watch", args |-> <<KeyArg("a"), StarArg("x.a")>>],
     [name |-> "track",
      args |-> <<LocalArg("q"), KeyArg("x.b"), ThisArg("a")>>]>>,
   <<[name |-> "watch", args |-> <<KeyArg("a"), EmptyArg>>],
     [name |-> "track", args |-> <<KeyArg("q")>>]>>}
NotEntered == [entered |-> FALSE, destroyed |-> FALSE]

\* the plain methods a state may declare next to the inherited ones
DeclaredMethods == {"go", "unknownEvent"}
InheritedMethods == {"toString"}

\* what a handler returns: false, nothing, 0, true
Results == {"false", "undefined", "0", "true"}

\* the substates of the state, by their path relative to it; the state is
\* the root state, so that the relative path is the full path
SubstateTrees ==
  {{<<"a">>, <<"b">>},
   {<<"a">>, <<"b">>, <<"a", "foo">>, <<"b", "foo">>},
   {<<"a">>, <<"foo">>, <<"a", "foo">>},
   {<<"a">>, <<"b">>, <<"a", "foo">>},
   {<<"a">>, <<"b">>, <<"a", "foo">>, <<"b", "foo">>, <<"b", "a">>,
    <<"b", "a", "foo">>}}
NullState == <<"null">>
Expressions == {<<>>, <<"a">>, <<"b">>, <<"foo">>, <<"a", "foo">>,
                <<"b", "foo">>, <<"bar">>, <<"a", "bar">>}
\* what the callback given to getSubstate returns
Answers == {NullState, <<"a">>, <<"b">>}

\* eventTransitions: event name -> patterns "source -> target", split
EmptyMap == [x \in {} |-> x]
NoTransitions == [e \in {} |-> <<>>]
TransitionTables ==
  {NoTransitions,
   [e \in {"go"} |-> <<[source |-> <<"a">>, target |-> <<"b">>],
                       [source |-> <<"b">>, target |-> <<"a">>]>>],
   [e \in {"go", "undo"} |->
      IF e = "go"
      THEN <<[source |-> <<"foo">>, target |-> <<"a">>],
             [source |-> <<"a">>, target |-> <<"foo">>]>>
      ELSE <<[source |-> <<"a", "foo">>, target |-> <<"a">>]>>]}

NoHandling == [event |-> NoKey, via |-> "none", name |-> NoHandler,
               result |-> Undef, ret |-> FALSE, warned |-> FALSE,
               goto |-> <<>>, calls |-> <<>>]
NoLookup == [expr |-> <<>>, callback |-> FALSE, answer |-> NullState,
             ret |-> NullState, logged |-> FALSE, called |-> FALSE,
             keys |-> {}]

\* a statechart: its states, named by their path from the root state, and
\* of each state whether substatesAreConcurrent and the initialSubstate its
\* design declares
Root == <<>>
NoInitial == "null"
AToB ==
  [states |-> {Root, <<"A">>, <<"A", "A1">>, <<"A", "A2">>,
               <<"A", "A1", "foo">>, <<"A", "A2", "foo">>, <<"B">>,
               <<"B", "foo">>, <<"B", "bar">>},
   concurrent |-> {<<"A">>}, history |-> {}, async |-> {},
   initial |-> [s \in {Root, <<"B">>} |->
                  IF s = Root THEN "A" ELSE "bar"]]
Nested ==
  [states |-> {Root, <<"foo">>, <<"foo", "x">>, <<"foo", "x", "foo">>,
               <<"foo", "x", "a">>, <<"foo", "x", "a", "foo">>},
   concurrent |-> {}, history |-> {}, async |-> {},
   initial |-> [s \in {Root, <<"foo", "x">>} |->
                  IF s = Root THEN "foo" ELSE "a"]]
\* the values of initialSubstate: null, the name a design declares, or a
\* state
NoRef == [kind |-> "null", name |-> "", state |-> NullState]
NameRef(n) == [kind |-> "name", name |-> n, state |-> NullState]
StateRef(s) == [kind |-> "state", name |-> "", state |-> s]
\* a history state, with the defaultState it declares by name and, once
\* the substate of that name is created, the state it stands for
HistoryRef(n, s) == [kind |-> "history", name |-> n, state |-> s]
EmptyStateName == "__EMPTY_STATE__"
\* a design whose declarations of initialSubstate do not fit its
\* substates: the root declares a name that no substate has, and a state
\* with concurrent substates declares one of them
Misdeclared ==
  [states |-> {Root, <<"a">>, <<"a", "p">>, <<"a", "q">>, <<"b">>,
               <<"b", "foo">>},
   concurrent |-> {<<"a">>}, history |-> {}, async |-> {},
   initial |-> [s \in {Root, <<"a">>} |-> IF s = Root THEN "zap" ELSE "p"]]
\* a design with a history state: the initialSubstate of A is an
\* SC.HistoryState whose defaultState is x
Remembering ==
  [states |-> {Root, <<"A">>, <<"A", "x">>, <<"A", "y">>, <<"B">>,
               <<"B", "foo">>, <<"B", "bar">>},
   concurrent |-> {}, history |-> {<<"A">>}, async |-> {},
   initial |-> [s \in {Root, <<"A">>, <<"B">>} |->
                  IF s = Root THEN "A" ELSE IF s = <<"A">> THEN "x"
                  ELSE "bar"]]
\* a design with states whose enterSubstate returns this.performAsync(..):
\* B, which has substates, and C and bar, which have none
Suspending ==
  [states |-> {Root, <<"A">>, <<"B">>, <<"B", "bar">>, <<"C">>},
   concurrent |-> {}, history |-> {},
   async |-> {<<"B">>, <<"B", "bar">>, <<"C">>},
   initial |-> [s \in {Root, <<"B">>} |->
                  IF s = Root THEN "A" ELSE "bar"]]

\* members every state has from SC.Substate
StateProperties == {"name", "substates", "toString"}
AddNames == {"", "new", "name"}
\* the second argument of addSubstate: a state class, an attribute hash,
\* or an object that is no class
AddValues == {"class", "hash", "object"}
MaxAdded == 1
\* the values handed to gotoSubstate: a path expression or a state
PathValue(expr) == [kind |-> "path", expr |-> expr, state |-> NullState]
StateValue(state) == [kind |-> "state", expr |-> <<>>, state |-> state]
GotoExpressions == {<<"foo">>, <<"A2">>, <<"B">>, <<"a">>, <<"zap">>}
NoRequest ==
  [op |-> "none", state |-> NullState, expr |-> <<>>,
   target |-> NullState, from |-> NullState, logged |-> FALSE,
   requested |-> FALSE, exits |-> <<>>, enters |-> <<>>]
NoInitialization == [state |-> NullState, wasInitialized |-> FALSE]
NoAddition ==
  [state |-> NullState, name |-> "", value |-> "class",
   ret |-> NullState, logged |-> FALSE]
NoStatechart ==
  [states |-> {}, concurrent |-> {}, history |-> {}, async |-> {},
   initial |-> EmptyMap]
\* no transition is held up
NoSuspension == [active |-> FALSE, at |-> 0, request |-> NoRequest]
Statecharts == {AToB, Nested}
StateExpressions == {<<>>, <<"foo">>, <<"bar">>, <<"A1">>, <<"A1", "foo">>,
                     <<"x">>, <<"B">>, <<"zap">>}
NoResolution == [state |-> NullState, expr |-> <<>>, ret |-> NullState,
                 logged |-> FALSE]

VARIABLES
  value,                  \* this[key] of the plain properties
  backing,                \* this._c, the slot the function of c writes
  cache,                  \* this[func.cacheKey] of each computed property
  lastSet,                \* this[func.lastSetValueKey]
  isCacheable,            \* set of computed keys with func.isCacheable
  isVolatile,             \* set of computed keys with func.isVolatile
  kvo_changeLevel,        \* this._kvo_changeLevel
  kvo_changes,            \* this._kvo_changes (SC.Set, in insertion order)
  kvo_revision,           \* this._kvo_revision
  propertyRevision,       \* this.propertyRevision
  kvo_observers,          \* this._kvo_observers_<key>: pair -> member[2]
  kvo_observed_keys,      \* this._kvo_observed_keys
  kvo_dependents,         \* this._kvo_dependents
  kvo_cachedDependents,   \* this._kvo_cachedDependents
  isObserveringSuspended, \* SC.Observers.isObserveringSuspended
  frame,                  \* the running _notifyPropertyObservers call
  op,                     \* history: the current / last call of the client
  fired,                  \* history: observer invocations during op
  react,                  \* history: what the last invoked observer did
  batch,                  \* history: the keys changed in the open batch
  warm,                   \* history: value a get returned since the last
                          \*   change of the key or of a key it depends on
  hot,                    \* history: as warm, and no flush of the key since
  prevSet,                \* history: the value of the last set of a key
  revisionWindow,         \* 0, or the revisions are kept in 1..revisionWindow
  kvo_didChange_valueCache,    \* this._kvo_didChange_valueCache
  kvo_didChange_revisionCache, \* this._kvo_didChange_revisionCache
  lastSeen,               \* history: the values at the last didChangeFor
  probe,                  \* history: the current call of didChangeFor
  invoked,                \* history: calls of the method given to observeOnce
  kvo_chains,             \* this._kvo_chains_<path>: chains, 0 for null
  chainObservers,         \* the SC._ChainObserver chains created so far
  removal,                \* history: the last removeObserver of a path
  stateMethods,           \* the plain methods declared on the state
  eventHandlers,          \* the functions with isEventHandler of the state
  stateObserveHandlers,   \* the functions with isStateObserveHandler
  eventTransitions,       \* this.eventTransitions
  substateTree,           \* the substates declared below the state
  stateIsInitialized,     \* this.stateIsInitialized
  registeredEventHandlers,        \* this._registeredEventHandlers
  registeredStringEventHandlers,  \* this._registeredStringEventHandlers
  registeredRegExpEventHandlers,  \* this._registeredRegExpEventHandlers
  registeredStateObserveHandlers, \* this._registeredStateObserveHandlers
  registeredSubstatePaths,        \* this._registeredSubstatePaths
  transitionsForEvent,    \* this._transitionsForEvent
  enteredSubstates,       \* this.enteredSubstates
  handling,               \* history: the last tryToHandleEvent
  lookup,                 \* history: the last getSubstate of the client
  statechart,             \* the states of the statechart and their design
  resolution,             \* history: the last getState
  substates,              \* substates of each state created, in order
  initialSubstate,        \* initialSubstate of each state created
  initializedStates,      \* the states with stateIsInitialized
  initialization,         \* history: the initState of the last step, if any
  addition,               \* history: the addSubstate of the last step
  currentSubstates,       \* currentSubstates of the root state
  observersQueue,         \* the observers SC.Observers holds for global paths
  lifecycle,              \* history: the state was entered, was destroyed
  request,                \* history: the last call that asks for a transition
  historyState,           \* historyState of the states with a history state
  suspended,              \* the transition an asynchronous hook holds up
  objects,                \* own properties of a prototype and its instances
  heap,                   \* the registries (hashes, sets) they refer to
  mutation                \* history: the object and method of the last call

objVars == <<value, backing, cache, lastSet, kvo_revision, kvo_changes>>
regVars == <<kvo_observers, kvo_observed_keys, kvo_dependents,
             kvo_cachedDependents, isCacheable, isVolatile>>
vars == <<value, backing, cache, lastSet, isCacheable, isVolatile,
          kvo_changeLevel, kvo_changes, kvo_revision, propertyRevision,
          kvo_observers, kvo_observed_keys, kvo_dependents,
          kvo_cachedDependents, isObserveringSuspended, frame, op, fired,
          react, batch, warm, hot, prevSet, revisionWindow,
          kvo_didChange_valueCache, kvo_didChange_revisionCache, lastSeen,
          probe, invoked, kvo_chains, chainObservers, removal,
          stateMethods, eventHandlers, stateObserveHandlers,
          eventTransitions, substateTree, stateIsInitialized,
          registeredEventHandlers, registeredStringEventHandlers,
          registeredRegExpEventHandlers, registeredStateObserveHandlers,
          registeredSubstatePaths, transitionsForEvent, enteredSubstates,
          handling, lookup, statechart, resolution, substates,
          initialSubstate, initializedStates, initialization, addition,
          currentSubstates, observersQueue, lifecycle, request,
          historyState, suspended, objects, heap, mutation>>

shareVars == <<objects, heap, mutation>>

\* what the methods of SC.Observable studied first leave alone
didChangeVars == <<kvo_didChange_valueCache, kvo_didChange_revisionCache,
                   lastSeen, probe>>
chainVars == <<kvo_chains, chainObservers, removal>>
designVars == <<stateMethods, eventHandlers, stateObserveHandlers,
                eventTransitions, substateTree>>
registryVars == <<registeredEventHandlers, registeredStringEventHandlers,
                  registeredRegExpEventHandlers,
                  registeredStateObserveHandlers, registeredSubstatePaths,
                  transitionsForEvent>>
treeVars == <<substates, initialSubstate, initializedStates>>
treeCalls == <<initialization, addition>>
runVars == <<currentSubstates, request, historyState, suspended>>
observeVars == <<observersQueue, lifecycle>>
chartVars == <<statechart, resolution, treeVars, treeCalls, runVars,
               observeVars>>
stateVars == <<designVars, stateIsInitialized, registryVars,
               enteredSubstates, handling, lookup, chartVars>>
auxVars == <<revisionWindow, shareVars, didChangeVars, invoked, chainVars,
            stateVars>>

\* ------------------------------------------------------- SC.Set as a list
Range(s) == {s[i] : i \in 1..Len(s)}

SetAdd(s, e) == IF e \in Range(s) THEN s ELSE Append(s, e)

RECURSIVE SetAddEach(_, _)
SetAddEach(s, es) ==
  IF es = <<>> THEN s ELSE SetAddEach(SetAdd(s, Head(es)), Tail(es))

\* the members of a set of keys in the fixed order a, q, p, c, *
KeyOrder == <<"a", "q", "p", "c", Star>>
InOrder(S) == SelectSeq(KeyOrder, LAMBDA k : k \in S)

\* ------------------------------------------------ the object as a record
\* The methods below are functions from the object's fields to its fields.
\* calls: the computed properties whose function was invoked;
\* flush / key: the method ends by calling _notifyPropertyObservers(key);
\* raised: the method threw; tuple: what the path resolver gave the method.
Self ==
  [value |-> value, backing |-> backing, cache |-> cache,
   lastSet |-> lastSet, rev |-> kvo_revision, changes |-> kvo_changes,
   level |-> kvo_changeLevel, calls |-> {}, ret |-> Undef,
   flush |-> FALSE, key |-> NoKey, raised |-> FALSE, tuple |-> "none"]

Install(s) ==
  /\ value' = s.value
  /\ backing' = s.backing
  /\ cache' = s.cache
  /\ lastSet' = s.lastSet
  /\ kvo_revision' = s.rev
  /\ kvo_changes' = s.changes

automaticallyNotifiesObserversFor(key) == TRUE

\* this._kvo_revision + 1 (line 395) and this.propertyRevision++ (line 761).
\* The code compares a revision only with the one of the pass before it
\* (line 811), so a specification may keep the revisions in
\* 1..revisionWindow to have finitely many states while the changes go on.
NextRevision(n) ==
  IF revisionWindow = 0 THEN n + 1 ELSE (n % revisionWindow) + 1

\* the changes and flushes explored where the revisions are not kept modulo
MayChange == revisionWindow > 0 \/ kvo_revision < MaxRevision
MayFlush == revisionWindow > 0 \/ propertyRevision <= MaxRevision

\* unknownProperty(key, value): stores a value that is not undefined
unknownProperty(s, key, val) ==
  IF val # Undef THEN [s EXCEPT !.value[key] = val, !.ret = val]
  ELSE [s EXCEPT !.ret = val]

RECURSIVE get(_, _)
RECURSIVE callProperty(_, _, _)

\* the functions of the computed properties q, p and c
callProperty(s, key, val) ==
  LET s0 == [s EXCEPT !.calls = @ \cup {key}] IN
  CASE key = "q" ->
         LET r == get(s0, "a") IN
         [r EXCEPT !.ret = IF r.ret = Undef THEN Zero ELSE r.ret]
    [] key = "p" -> get(s0, "q")
    [] key = "c" ->
         LET s1 == IF val # Undef THEN [s0 EXCEPT !.backing = val] ELSE s0
         IN [s1 EXCEPT !.ret = s1.backing]

get(s, key) ==
  IF key \in PlainKeys
  THEN IF s.value[key] = Undef
       THEN unknownProperty(s, key, Undef)
       ELSE [s EXCEPT !.ret = s.value[key]]
  ELSE IF key \in isCacheable
       THEN IF s.cache[key] # Undef
            THEN [s EXCEPT !.ret = s.cache[key]]
            ELSE LET r == callProperty(s, key, Undef)
                 IN [r EXCEPT !.cache[key] = r.ret]
       ELSE callProperty(s, key, Undef)

\* fault: a change made while observing is suspended is delivered at once
propertyDidChange_ignoresSuspension(s, key) ==
  LET s1 == [s EXCEPT !.rev = NextRevision(@)]
      s2 == IF key \in ComputedKeys /\ key \in isCacheable
            THEN [s1 EXCEPT !.cache[key] = Undef, !.lastSet[key] = Undef]
            ELSE s1
  IN IF s2.level > 0
     THEN [s2 EXCEPT !.changes = SetAdd(@, key)]
     ELSE [s2 EXCEPT !.flush = TRUE, !.key = key]

\* fault: a change made at a raised change level is delivered at once
propertyDidChange_ignoresLevel(s, key) ==
  LET s1 == [s EXCEPT !.rev = NextRevision(@)]
      s2 == IF key \in ComputedKeys /\ key \in isCacheable
            THEN [s1 EXCEPT !.cache[key] = Undef, !.lastSet[key] = Undef]
            ELSE s1
  IN IF isObserveringSuspended
     THEN [s2 EXCEPT !.changes = SetAdd(@, key)]
     ELSE [s2 EXCEPT !.flush = TRUE, !.key = key]

\* fault: the revision is only incremented when the change is delivered
propertyDidChange_countsDelivered(s, key) ==
  LET s2 == IF key \in ComputedKeys /\ key \in isCacheable
            THEN [s EXCEPT !.cache[key] = Undef, !.lastSet[key] = Undef]
            ELSE s
  IN IF s2.level > 0 \/ isObserveringSuspended
     THEN [s2 EXCEPT !.changes = SetAdd(@, key)]
     ELSE [s2 EXCEPT !.rev = NextRevision(@), !.flush = TRUE, !.key = key]

propertyDidChange(s, key) ==
  LET s1 == [s EXCEPT !.rev = NextRevision(@)]
      s2 == IF key \in ComputedKeys /\ key \in isCacheable
            THEN [s1 EXCEPT !.cache[key] = Undef, !.lastSet[key] = Undef]
            ELSE s1
  IN IF s2.level > 0 \/ isObserveringSuspended
     THEN [s2 EXCEPT !.changes = SetAdd(@, key)]
     ELSE [s2 EXCEPT !.flush = TRUE, !.key = key]

\* set, lines 254-284: up to and including propertyDidChange
setBody(s, key, val) ==
  LET notify == automaticallyNotifiesObserversFor(key) IN
  IF key \in ComputedKeys
  THEN IF key \in isVolatile \/ s.lastSet[key] # val
       THEN LET s1 == [s EXCEPT !.lastSet[key] = val]
                r == callProperty(s1, key, val)
                s2 == IF key \in isCacheable
                      THEN [r EXCEPT !.cache[key] = r.ret]
                      ELSE r
            IN IF notify THEN propertyDidChange(s2, key) ELSE s2
       ELSE [s EXCEPT !.ret = val]
  ELSE IF s.value[key] = Undef
       THEN LET s1 == [unknownProperty(s, key, val) EXCEPT !.ret = val]
            IN IF notify THEN propertyDidChange(s1, key) ELSE s1
       ELSE IF s.value[key] # val
            THEN LET s1 == [s EXCEPT !.value[key] = val, !.ret = val]
                 IN IF notify THEN propertyDidChange(s1, key) ELSE s1
            ELSE [s EXCEPT !.ret = val]

\* set, lines 286-297: clear the cache of the cached dependents of key
RECURSIVE clearEach(_, _)
clearEach(s, funcs) ==
  IF funcs = <<>> THEN s
  ELSE clearEach([s EXCEPT !.cache[Head(funcs)] = Undef,
                           !.lastSet[Head(funcs)] = Undef], Tail(funcs))

\* fault: set leaves the caches of the dependents alone
clearCachedDependents_skipped(s, key) == s

clearCachedDependents(s, key) == clearEach(s, kvo_cachedDependents[key])


\* _notifyPropertyObservers, lines 778-798: add the dependent keys of every
\* changed key and clear the cache of the cacheable ones
RECURSIVE addDependents(_, _, _)
addDependents(e, keys, loc) ==
  IF loc < 1 THEN e
  ELSE LET k == keys[loc] IN
       addDependents(
         [changes |-> SetAdd(e.changes, k),
          cache |-> IF k \in ComputedKeys /\ k \in isCacheable
                    THEN [e.cache EXCEPT ![k] = Undef]
                    ELSE e.cache],
         keys, loc - 1)

\* fault: the dependent keys are not added to the changed keys
expandDependents_none(e, idx) == e

RECURSIVE expandDependents(_, _)
expandDependents(e, idx) ==
  IF idx > Len(e.changes) THEN e
  ELSE LET keys == kvo_dependents[e.changes[idx]] IN
       expandDependents(addDependents(e, keys, Len(keys)), idx + 1)

\* ------------------------------------------------------------- registries
AllKeys == Keys \cup {Star}

\* registerDependentKey(key, dep), lines 480-492
registerDependentKey(reg, key, dep) ==
  [dependents |-> [reg.dependents EXCEPT ![dep] = Append(@, key)],
   cached |-> IF key \in ComputedKeys /\ key \in isCacheable
              THEN [reg.cached EXCEPT ![dep] = Append(@, key)]
              ELSE reg.cached]

\* SC._ObserverSet.targets: the targets that have a method registered
targets(observers) == Cardinality({m[1] : m \in DOMAIN observers})

Registrations ==
  {r \in AllKeys \X ObserverPairs : r[2] \in DOMAIN kvo_observers[r[1]]}

\* ------------------------------------------------------- history helpers
Idle ==
  [pc |-> "idle", key |-> NoKey, changes |-> <<>>, rev |-> 0,
   cur |-> NoKey, todo |-> {}, cont |-> NoKey]

NoReact == [kind |-> "none", key |-> NoKey, val |-> Undef, ret |-> Undef,
            calls |-> {}, warm0 |-> Undef, hot0 |-> Undef]

NoBatch == [open |-> FALSE, changed |-> {}, twice |-> {}, clean |-> TRUE]

\* the invocations of an observer are counted up to MaxFired
Record(bag, e) ==
  IF CopiesIn(e, bag) >= MaxFired THEN bag ELSE bag (+) SetToBag({e})

QuietOp ==
  [name |-> "other", key |-> NoKey, val |-> Undef, level0 |-> 0,
   susp0 |-> FALSE, rev0 |-> 0, pending0 |-> FALSE, ret |-> Undef,
   calls |-> {}, flushed |-> FALSE, done |-> TRUE, warm0 |-> Undef,
   hot0 |-> Undef, prev0 |-> Undef, rechanged |-> {}, raised |-> FALSE,
   tuple |-> "none"]

QuietNames ==
  {"beginPropertyChanges", "addObserver", "removeObserver", "observeOnce",
   "suspendPropertyObserving", "resumePropertyObserving"}

NewOp(name, key, val, s) ==
  IF name \in QuietNames /\ val = Undef THEN QuietOp
  ELSE [name |-> name, key |-> key, val |-> val,
        level0 |-> kvo_changeLevel, susp0 |-> isObserveringSuspended,
        rev0 |-> kvo_revision, pending0 |-> Len(kvo_changes) > 0,
        ret |-> s.ret, calls |-> s.calls, flushed |-> s.flush,
        done |-> ~s.flush,
        warm0 |-> IF name = "get" /\ key \in ComputedKeys THEN warm[key]
                  ELSE Undef,
        hot0 |-> IF name = "get" /\ key \in ComputedKeys THEN hot[key]
                 ELSE Undef,
        prev0 |-> IF name = "set" /\ key \in ComputedKeys THEN prevSet[key]
                  ELSE Undef,
        rechanged |-> {}, raised |-> s.raised, tuple |-> s.tuple]

\* the keys that depend, directly or not, on one of the keys K; and K
RECURSIVE DependentClosure(_)
DependentClosure(K) ==
  LET K2 == K \cup UNION {Range(kvo_dependents[k]) : k \in K}
  IN IF K2 = K THEN K ELSE DependentClosure(K2)

\* the methods that call propertyDidChange(key)
ChangeNames == {"set", "propertyDidChange", "setPath", "setPathIfChanged"}

Cool(w, K) ==
  [k \in ComputedKeys |-> IF k \in DependentClosure(K) THEN Undef ELSE w[k]]

Touch(w, name, key, s) ==
  CASE name = "get" /\ key \in ComputedKeys /\ key \in isCacheable ->
         [w EXCEPT ![key] = s.ret]
    [] name \in ChangeNames -> Cool(w, {key})
    [] name = "allPropertiesDidChange" -> [k \in ComputedKeys |-> Undef]
    [] OTHER -> w

BatchAfter(name, key, s) ==
  IF kvo_changeLevel = 0
  THEN IF name = "beginPropertyChanges"
       THEN [NoBatch EXCEPT !.open = TRUE]
       ELSE NoBatch
  ELSE IF name \in ChangeNames /\ s.rev # kvo_revision
       THEN [batch EXCEPT !.changed = @ \cup {key},
                          !.twice = @ \cup ({key} \cap batch.changed)]
       ELSE IF name = "allPropertiesDidChange"
            THEN [batch EXCEPT !.clean = FALSE]
            ELSE batch

History(name, key, val, s) ==
  /\ op' = NewOp(name, key, val, s)
  /\ fired' = EmptyBag
  /\ react' = NoReact
  /\ batch' = BatchAfter(name, key, s)
  /\ warm' = Touch(warm, name, key, s)
  /\ hot' = Touch(hot, name, key, s)
  /\ prevSet' = IF name = "set" /\ key \in ComputedKeys
                THEN [prevSet EXCEPT ![key] = val]
                ELSE prevSet

\* A method of the client returns, or it has entered
\* _notifyPropertyObservers(s.key) (line 755 raises the change level) and
\* goes on after the flush: cont is the key whose cached dependents set
\* clears after propertyDidChange has returned.
Complete(s, cont) ==
  IF s.flush
  THEN /\ Install(s)
       /\ kvo_changeLevel' = s.level + 1
       /\ frame' = [Idle EXCEPT !.pc = "loop", !.key = s.key, !.cont = cont]
  ELSE /\ Install(IF cont = NoKey THEN s ELSE clearCachedDependents(s, cont))
       /\ kvo_changeLevel' = s.level
       /\ frame' = Idle

\* ------------------------------------------------------ client operations
Get(key) ==
  /\ frame.pc = "idle"
  /\ LET s == get(Self, key) IN
       /\ Complete(s, NoKey)
       /\ History("get", key, Undef, s)
  /\ UNCHANGED <<propertyRevision, isObserveringSuspended, regVars, auxVars>>

Set(key, val) ==
  /\ frame.pc = "idle"
  /\ MayChange
  /\ LET s == setBody(Self, key, val) IN
       /\ Complete(s, key)
       /\ History("set", key, val, s)
  /\ UNCHANGED <<propertyRevision, isObserveringSuspended, regVars, auxVars>>

PropertyDidChange(key) ==
  /\ frame.pc = "idle"
  /\ MayChange
  /\ LET s == propertyDidChange(Self, key) IN
       /\ Complete(s, NoKey)
       /\ History("propertyDidChange", key, Undef, s)
  /\ UNCHANGED <<propertyRevision, isObserveringSuspended, regVars, auxVars>>

BeginPropertyChanges ==
  /\ frame.pc = "idle"
  /\ kvo_changeLevel < MaxLevel
  /\ LET s == [Self EXCEPT !.level = @ + 1] IN
       /\ Complete(s, NoKey)
       /\ History("beginPropertyChanges", NoKey, Undef, s)
  /\ UNCHANGED <<propertyRevision, isObserveringSuspended, regVars, auxVars>>

\* fault: the level is decremented without the "|| 1" of line 348
EndPropertyChanges_decrements ==
  /\ frame.pc = "idle"
  /\ MayFlush
  /\ LET level == kvo_changeLevel - 1
         s == [Self EXCEPT !.level = level,
                           !.flush = (level <= 0) /\ Len(kvo_changes) > 0]
     IN /\ Complete(s, NoKey)
        /\ History("endPropertyChanges", NoKey, Undef, s)
  /\ UNCHANGED <<propertyRevision, isObserveringSuspended, regVars, auxVars>>

\* fault: an inner endPropertyChanges already flushes
EndPropertyChanges_flushesInner ==
  /\ frame.pc = "idle"
  /\ MayFlush
  /\ LET level == (IF kvo_changeLevel = 0 THEN 1 ELSE kvo_changeLevel) - 1
         s == [Self EXCEPT !.level = level,
                           !.flush = (level <= 1) /\ Len(kvo_changes) > 0]
     IN /\ Complete(s, NoKey)
        /\ History("endPropertyChanges", NoKey, Undef, s)
  /\ UNCHANGED <<propertyRevision, isObserveringSuspended, regVars, auxVars>>

EndPropertyChanges ==
  /\ frame.pc = "idle"
  /\ MayFlush
  /\ LET level == (IF kvo_changeLevel = 0 THEN 1 ELSE kvo_changeLevel) - 1
         s == [Self EXCEPT !.level = level,
                           !.flush = (level <= 0) /\ Len(kvo_changes) > 0]
     IN /\ Complete(s, NoKey)
        /\ History("endPropertyChanges", NoKey, Undef, s)
  /\ UNCHANGED <<propertyRevision, isObserveringSuspended, regVars, auxVars>>

AllPropertiesDidChange ==
  /\ frame.pc = "idle"
  /\ MayFlush
  /\ LET s == [Self EXCEPT !.flush = TRUE, !.key = Star] IN
       /\ Complete(s, NoKey)
       /\ History("allPropertiesDidChange", NoKey, Undef, s)
  /\ UNCHANGED <<propertyRevision, isObserveringSuspended, regVars, auxVars>>

\* didChangeFor, lines 922-932: the loop over arguments[idx], idx >= 1.
\* seenValues[key] is compared with the value and never assigned.
RECURSIVE didChangeLoop(_, _, _, _, _)
didChangeLoop(r, seenValues, currentRevision, keys, idx) ==
  IF idx < 1 THEN r
  ELSE LET key == keys[idx]
           stale == r.seenRevisions[key] # currentRevision
           g == IF stale THEN get(r.s, key) ELSE r.s
           differs == stale /\ seenValues[key] # g.ret
       IN didChangeLoop(
            [s |-> g,
             seenRevisions |-> [r.seenRevisions EXCEPT ![key] = currentRevision],
             ret |-> r.ret \/ differs],
            seenValues, currentRevision, keys, idx - 1)

\* didChangeFor(context, k1..kn), lines 904-937
didChangeFor(s, context, keys) ==
  LET seenValues == kvo_didChange_valueCache[context]
      r == didChangeLoop(
             [s |-> s,
              seenRevisions |-> kvo_didChange_revisionCache[context],
              ret |-> FALSE],
             seenValues, s.rev, keys, Len(keys))
  IN [s |-> [r.s EXCEPT !.ret = IF r.ret THEN "true" ELSE "false"],
      seenValues |-> seenValues, seenRevisions |-> r.seenRevisions]

\* the value get(key) returns now
Current(key) == get(Self, key).ret

NoProbe == [context |-> NoKey, keys |-> <<>>,
            before |-> [k \in Keys |-> Never],
            now |-> [k \in Keys |-> Undef]]

DidChangeFor(context, keys) ==
  /\ frame.pc = "idle"
  /\ LET r == didChangeFor(Self, context, keys) IN
       /\ Complete(r.s, NoKey)
       /\ History("didChangeFor", NoKey, Undef, r.s)
       /\ kvo_didChange_valueCache' =
            [kvo_didChange_valueCache EXCEPT ![context] = r.seenValues]
       /\ kvo_didChange_revisionCache' =
            [kvo_didChange_revisionCache EXCEPT ![context] = r.seenRevisions]
  /\ probe' = [context |-> context, keys |-> keys,
               before |-> lastSeen[context],
               now |-> [k \in Keys |-> Current(k)]]
  /\ lastSeen' = [lastSeen EXCEPT ![context] =
                    [k \in Keys |-> IF k \in Range(keys) THEN Current(k)
                                    ELSE @[k]]]
  /\ UNCHANGED <<propertyRevision, isObserveringSuspended, regVars,
                 revisionWindow, shareVars, stateVars, invoked, chainVars>>

\* The property paths used: a key, a dotted path whose links all exist and
\* lead to this object, and a dotted path with an absent link.
Paths ==
  {[text |-> "a", dotted |-> FALSE, linked |-> TRUE],
   [text |-> "me.a", dotted |-> TRUE, linked |-> TRUE],
   [text |-> "x.a", dotted |-> TRUE, linked |-> FALSE]}

\* SC.tupleForPropertyPath(path, this): [object, key], here "this" for
\* [this, 'a'].  getPath (line 961) expects two outcomes when no object is
\* found: null, and a tuple whose object is null.
tupleForPropertyPath(path) ==
  IF path.linked THEN {"this"} ELSE {"null", "nullObject"}

\* getPath, lines 959-963
getPath(s, tuple) ==
  IF tuple \in {"null", "nullObject"}
  THEN [s EXCEPT !.ret = Undef, !.tuple = tuple]
  ELSE [get(s, "a") EXCEPT !.tuple = tuple]

\* setIfChanged, lines 950-952, up to and including propertyDidChange
setIfChanged(s, key, val) ==
  LET g == get(s, key) IN
  IF g.ret # val THEN setBody(g, key, val) ELSE g

\* setPath, lines 972-979: tuple[0] of a null tuple is a TypeError
setPath(s, path, tuple, val) ==
  IF path.dotted
  THEN CASE tuple = "null" -> [s EXCEPT !.raised = TRUE, !.tuple = tuple]
         [] tuple = "nullObject" -> [s EXCEPT !.ret = NoKey, !.tuple = tuple]
         [] OTHER -> [setBody(s, "a", val) EXCEPT !.tuple = tuple]
  ELSE setBody(s, "a", val)

\* setPathIfChanged, lines 990-999
setPathIfChanged(s, path, tuple, val) ==
  IF path.dotted
  THEN CASE tuple = "null" -> [s EXCEPT !.raised = TRUE, !.tuple = tuple]
         [] tuple = "nullObject" -> [s EXCEPT !.ret = NoKey, !.tuple = tuple]
         [] OTHER -> [setIfChanged(s, "a", val) EXCEPT !.tuple = tuple]
  ELSE setIfChanged(s, "a", val)

GetPath(path, tuple) ==
  /\ frame.pc = "idle"
  /\ tuple \in tupleForPropertyPath(path)
  /\ LET s == getPath(Self, tuple) IN
       /\ Complete(s, NoKey)
       /\ History("getPath", "a", Undef, s)
  /\ UNCHANGED <<propertyRevision, isObserveringSuspended, regVars, auxVars>>

SetPath(path, tuple, val) ==
  /\ frame.pc = "idle"
  /\ MayChange
  /\ tuple \in tupleForPropertyPath(path)
  /\ LET s == setPath(Self, path, tuple, val) IN
       /\ Complete(s, IF tuple = "this" THEN "a" ELSE NoKey)
       /\ History("setPath", "a", val, s)
  /\ UNCHANGED <<propertyRevision, isObserveringSuspended, regVars, auxVars>>

SetPathIfChanged(path, tuple, val) ==
  /\ frame.pc = "idle"
  /\ MayChange
  /\ tuple \in tupleForPropertyPath(path)
  /\ LET s == setPathIfChanged(Self, path, tuple, val) IN
       /\ Complete(s, IF tuple = "this" /\ s.rev # kvo_revision THEN "a"
                      ELSE NoKey)
       /\ History("setPathIfChanged", "a", val, s)
  /\ UNCHANGED <<propertyRevision, isObserveringSuspended, regVars, auxVars>>

\* addObserver(key, target, method) for a key without '.', lines 571-575;
\* line 547 throws when the method is not resolved
AddObserver(key, member) ==
  /\ frame.pc = "idle"
  /\ Cardinality(Registrations) < MaxObservers
  /\ IF Resolvable(member)
     THEN /\ kvo_observers' =
               IF member \in DOMAIN kvo_observers[key] THEN kvo_observers
               ELSE [kvo_observers EXCEPT
                       ![key] = [m \in DOMAIN @ \cup {member} |->
                                   IF m = member THEN 0 ELSE @[m]]]
          /\ kvo_observed_keys' = kvo_observed_keys \cup {key}
          /\ History("addObserver", key, Undef, Self)
     ELSE /\ UNCHANGED <<kvo_observers, kvo_observed_keys>>
          /\ History("addObserver", key, member[2],
                     [Self EXCEPT !.raised = TRUE])
  /\ UNCHANGED <<objVars, kvo_changeLevel, propertyRevision, frame,
                 isObserveringSuspended, kvo_dependents,
                 kvo_cachedDependents, isCacheable, isVolatile, auxVars>>

\* SC._ChainObserver.createChain(this, key, target, method), and lines
\* 555-556: the chain with its masterTarget and masterMethod
createChain(path, member) ==
  [path |-> path, masterTarget |-> member[1], masterMethod |-> member[2],
   destroyed |-> FALSE]

\* chain.destroyChain(): releases the links of the chain and returns null
destroyChain(chain) == [chain EXCEPT !.destroyed = TRUE]

\* fault: only the last matching chain of the list is removed
removeChains_lastOnly(r, member, idx) ==
  LET found == {i \in 1..idx :
                  /\ r.chains[i] # 0
                  /\ r.all[r.chains[i]].masterTarget = member[1]
                  /\ r.all[r.chains[i]].masterMethod = member[2]}
      top == CHOOSE i \in found : \A j \in found : j <= i
  IN IF found = {} THEN r
     ELSE [chains |-> [r.chains EXCEPT ![top] = 0],
           all |-> [r.all EXCEPT ![r.chains[top]] = destroyChain(@)]]

\* removeObserver, lines 604-610: the loop over the chains of the path
RECURSIVE removeChains(_, _, _)
removeChains(r, member, idx) ==
  IF idx < 1 THEN r
  ELSE LET id == r.chains[idx]
           match == /\ id # 0
                    /\ r.all[id].masterTarget = member[1]
                    /\ r.all[id].masterMethod = member[2]
       IN removeChains(
            IF match
            THEN [chains |-> [r.chains EXCEPT ![idx] = 0],
                  all |-> [r.all EXCEPT ![id] = destroyChain(@)]]
            ELSE r,
            member, idx - 1)

\* addObserver(path, target, method) for a path with '.', lines 551-559
AddObserverChain(path, member) ==
  /\ frame.pc = "idle"
  /\ Len(chainObservers) < MaxChains
  /\ chainObservers' = Append(chainObservers, createChain(path, member))
  /\ kvo_chains' = [kvo_chains EXCEPT
                      ![path] = Append(@, Len(chainObservers) + 1)]
  /\ removal' = NoRemoval
  /\ History("addObserver", NoKey, Undef, Self)
  /\ UNCHANGED <<objVars, kvo_changeLevel, propertyRevision, frame,
                 isObserveringSuspended, regVars, revisionWindow, shareVars, stateVars,
                 didChangeVars, invoked>>

\* removeObserver(path, target, method) for a path with '.', lines 592-611
RemoveObserverChain(path, member) ==
  /\ frame.pc = "idle"
  /\ LET r == IF kvo_chains[path] # <<>>
              THEN removeChains([chains |-> kvo_chains[path],
                                 all |-> chainObservers],
                                member, Len(kvo_chains[path]))
              ELSE [chains |-> kvo_chains[path], all |-> chainObservers]
     IN /\ kvo_chains' = [kvo_chains EXCEPT ![path] = r.chains]
        /\ chainObservers' = r.all
  /\ removal' = [path |-> path, member |-> member,
                 live0 |-> {id \in 1..Len(chainObservers) :
                              ~chainObservers[id].destroyed}]
  /\ History("removeObserver", NoKey, Undef, Self)
  /\ UNCHANGED <<objVars, kvo_changeLevel, propertyRevision, frame,
                 isObserveringSuspended, regVars, revisionWindow, shareVars, stateVars,
                 didChangeVars, invoked>>

\* observeOnce(key, this, method), lines 1141-1190, without a timeout.
\* The handler (lines 1161-1173) is registered with target.addObserver; when
\* the flush calls it as handler(object, key, null, rev), its parameter
\* named target is the key, a string, so after it has called the method
\* target.removeObserver(...) at line 1166 throws a TypeError.
ObserveOnce(key) ==
  /\ frame.pc = "idle"
  /\ Cardinality(Registrations) < MaxObservers
  /\ OncePair \notin DOMAIN kvo_observers[key]
  /\ kvo_observers' =
       [kvo_observers EXCEPT
          ![key] = [m \in DOMAIN @ \cup {OncePair} |->
                      IF m = OncePair THEN 0 ELSE @[m]]]
  /\ kvo_observed_keys' = kvo_observed_keys \cup {key}
  /\ invoked' = 0
  /\ History("observeOnce", key, Undef, Self)
  /\ UNCHANGED <<objVars, kvo_changeLevel, propertyRevision, frame,
                 isObserveringSuspended, kvo_dependents,
                 kvo_cachedDependents, isCacheable, isVolatile,
                 revisionWindow, shareVars, stateVars, didChangeVars, chainVars>>

\* removeObserver(key, target, method) for a key without '.', lines 615-624;
\* line 590 throws when the method is not resolved
RemoveObserver(key, member) ==
  /\ frame.pc = "idle"
  /\ IF Resolvable(member)
     THEN LET observers == [m \in DOMAIN kvo_observers[key] \ {member} |->
                              kvo_observers[key][m]]
          IN /\ kvo_observers' = [kvo_observers EXCEPT ![key] = observers]
             /\ kvo_observed_keys' =
                  IF targets(observers) <= 0 THEN kvo_observed_keys \ {key}
                  ELSE kvo_observed_keys
             /\ History("removeObserver", key, Undef, Self)
     ELSE /\ UNCHANGED <<kvo_observers, kvo_observed_keys>>
          /\ History("removeObserver", key, member[2],
                     [Self EXCEPT !.raised = TRUE])
  /\ UNCHANGED <<objVars, kvo_changeLevel, propertyRevision, frame,
                 isObserveringSuspended, kvo_dependents,
                 kvo_cachedDependents, isCacheable, isVolatile, auxVars>>

\* SC.Observers suspends and resumes observing for every object
SuspendPropertyObserving ==
  /\ frame.pc = "idle"
  /\ ~isObserveringSuspended
  /\ isObserveringSuspended' = TRUE
  /\ History("suspendPropertyObserving", NoKey, Undef, Self)
  /\ UNCHANGED <<objVars, kvo_changeLevel, propertyRevision, frame, regVars, auxVars>>

ResumePropertyObserving ==
  /\ frame.pc = "idle"
  /\ isObserveringSuspended
  /\ isObserveringSuspended' = FALSE
  /\ History("resumePropertyObserving", NoKey, Undef, Self)
  /\ UNCHANGED <<objVars, kvo_changeLevel, propertyRevision, frame, regVars, auxVars>>

\* ------------------------------------------------- _notifyPropertyObservers
\* fault: '*' is added without the observed keys
addPassedKey_starOnly(changes, key) ==
  IF key # NoKey THEN SetAdd(changes, key) ELSE changes

\* lines 769-776: add the passed key, or '*' and every observed key
addPassedKey(changes, key) ==
  IF key = Star
  THEN SetAddEach(SetAdd(changes, Star), InOrder(kvo_observed_keys))
  ELSE IF key # NoKey THEN SetAdd(changes, key) ELSE changes

\* fault: the while of line 758 is an if; changes made by the observers of
\* the first pass are left pending
FlushLoop_onePass ==
  /\ frame.pc = "loop"
  /\ IF frame.key # NoKey \/ (frame.rev = 0 /\ Len(kvo_changes) > 0)
     THEN LET rev == propertyRevision
              e == expandDependents(
                     [changes |-> addPassedKey(kvo_changes, frame.key),
                      cache |-> cache], 1)
          IN /\ propertyRevision' = NextRevision(rev)
             /\ kvo_changes' = <<>>
             /\ cache' = e.cache
             /\ frame' = [frame EXCEPT !.pc = "pop", !.rev = rev,
                                       !.changes = e.changes, !.key = NoKey]
             /\ hot' = [k \in ComputedKeys |->
                          IF k \in Range(e.changes) THEN Undef ELSE hot[k]]
             /\ UNCHANGED <<value, backing, lastSet, kvo_revision,
                            kvo_changeLevel, op, warm>>
     ELSE LET s == [Self EXCEPT
                      !.level = (IF kvo_changeLevel = 0 THEN 1
                                 ELSE kvo_changeLevel) - 1]
          IN /\ Install(IF frame.cont = NoKey THEN s
                        ELSE clearCachedDependents(s, frame.cont))
             /\ kvo_changeLevel' = s.level
             /\ frame' = Idle
             /\ op' = [op EXCEPT !.done = TRUE]
             /\ warm' = IF frame.cont = NoKey THEN warm
                        ELSE Cool(warm, {frame.cont})
             /\ hot' = IF frame.cont = NoKey THEN hot
                       ELSE Cool(hot, {frame.cont})
             /\ UNCHANGED propertyRevision
  /\ react' = NoReact
  /\ UNCHANGED <<fired, batch, prevSet, isObserveringSuspended, regVars, auxVars>>

\* fault: the first pass leaves the keys it notifies in the pending set
FlushLoop_keepsPending ==
  /\ frame.pc = "loop"
  /\ IF Len(kvo_changes) > 0 \/ frame.key # NoKey
     THEN LET rev == propertyRevision
              e == expandDependents(
                     [changes |-> addPassedKey(kvo_changes, frame.key),
                      cache |-> cache], 1)
          IN /\ propertyRevision' = NextRevision(rev)
             /\ kvo_changes' = IF frame.rev = 0 THEN kvo_changes ELSE <<>>
             /\ cache' = e.cache
             /\ frame' = [frame EXCEPT !.pc = "pop", !.rev = rev,
                                       !.changes = e.changes, !.key = NoKey]
             /\ hot' = [k \in ComputedKeys |->
                          IF k \in Range(e.changes) THEN Undef ELSE hot[k]]
             /\ UNCHANGED <<value, backing, lastSet, kvo_revision,
                            kvo_changeLevel, op, warm>>
     ELSE LET s == [Self EXCEPT
                      !.level = (IF kvo_changeLevel = 0 THEN 1
                                 ELSE kvo_changeLevel) - 1]
          IN /\ Install(IF frame.cont = NoKey THEN s
                        ELSE clearCachedDependents(s, frame.cont))
             /\ kvo_changeLevel' = s.level
             /\ frame' = Idle
             /\ op' = [op EXCEPT !.done = TRUE]
             /\ warm' = IF frame.cont = NoKey THEN warm
                        ELSE Cool(warm, {frame.cont})
             /\ hot' = IF frame.cont = NoKey THEN hot
                       ELSE Cool(hot, {frame.cont})
             /\ UNCHANGED propertyRevision
  /\ react' = NoReact
  /\ UNCHANGED <<fired, batch, prevSet, isObserveringSuspended, regVars, auxVars>>

\* fault: the flush returns without lowering the change level (line 856)
FlushLoop_keepsLevel ==
  /\ frame.pc = "loop"
  /\ IF Len(kvo_changes) > 0 \/ frame.key # NoKey
     THEN LET rev == propertyRevision
              e == expandDependents(
                     [changes |-> addPassedKey(kvo_changes, frame.key),
                      cache |-> cache], 1)
          IN /\ propertyRevision' = NextRevision(rev)
             /\ kvo_changes' = <<>>
             /\ cache' = e.cache
             /\ frame' = [frame EXCEPT !.pc = "pop", !.rev = rev,
                                       !.changes = e.changes, !.key = NoKey]
             /\ hot' = [k \in ComputedKeys |->
                          IF k \in Range(e.changes) THEN Undef ELSE hot[k]]
             /\ UNCHANGED <<value, backing, lastSet, kvo_revision,
                            kvo_changeLevel, op, warm>>
     ELSE LET s == Self
          IN /\ Install(IF frame.cont = NoKey THEN s
                        ELSE clearCachedDependents(s, frame.cont))
             /\ kvo_changeLevel' = s.level
             /\ frame' = Idle
             /\ op' = [op EXCEPT !.done = TRUE]
             /\ warm' = IF frame.cont = NoKey THEN warm
                        ELSE Cool(warm, {frame.cont})
             /\ hot' = IF frame.cont = NoKey THEN hot
                       ELSE Cool(hot, {frame.cont})
             /\ UNCHANGED propertyRevision
  /\ react' = NoReact
  /\ UNCHANGED <<fired, batch, prevSet, isObserveringSuspended, regVars, auxVars>>

\* the while condition of line 758; one pass up to the notification loop,
\* or the return of lines 855-857 and what the caller does next
FlushLoop ==
  /\ frame.pc = "loop"
  /\ IF Len(kvo_changes) > 0 \/ frame.key # NoKey
     THEN LET rev == propertyRevision
              e == expandDependents(
                     [changes |-> addPassedKey(kvo_changes, frame.key),
                      cache |-> cache], 1)
          IN /\ propertyRevision' = NextRevision(rev)
             /\ kvo_changes' = <<>>
             /\ cache' = e.cache
             /\ frame' = [frame EXCEPT !.pc = "pop", !.rev = rev,
                                       !.changes = e.changes, !.key = NoKey]
             /\ hot' = [k \in ComputedKeys |->
                          IF k \in Range(e.changes) THEN Undef ELSE hot[k]]
             /\ UNCHANGED <<value, backing, lastSet, kvo_revision,
                            kvo_changeLevel, op, warm>>
     ELSE LET s == [Self EXCEPT
                      !.level = (IF kvo_changeLevel = 0 THEN 1
                                 ELSE kvo_changeLevel) - 1]
          IN /\ Install(IF frame.cont = NoKey THEN s
                        ELSE clearCachedDependents(s, frame.cont))
             /\ kvo_changeLevel' = s.level
             /\ frame' = Idle
             /\ op' = [op EXCEPT !.done = TRUE]
             /\ warm' = IF frame.cont = NoKey THEN warm
                        ELSE Cool(warm, {frame.cont})
             /\ hot' = IF frame.cont = NoKey THEN hot
                       ELSE Cool(hot, {frame.cont})
             /\ UNCHANGED propertyRevision
  /\ react' = NoReact
  /\ UNCHANGED <<fired, batch, prevSet, isObserveringSuspended, regVars, auxVars>>

\* line 801-802: take the next changed key, and its observers (807, 832)
FlushPop ==
  /\ frame.pc = "pop"
  /\ IF frame.changes = <<>>
     THEN frame' = [frame EXCEPT !.pc = "loop", !.cur = NoKey]
     ELSE LET n == Len(frame.changes)
              key == frame.changes[n]
              todo == {<<key, m>> : m \in DOMAIN kvo_observers[key]} \cup
                      (IF key # Star
                       THEN {<<Star, m>> : m \in DOMAIN kvo_observers[Star]}
                       ELSE {})
          IN frame' = [frame EXCEPT !.changes = SubSeq(frame.changes, 1, n - 1),
                                    !.cur = key, !.todo = todo,
                                    !.pc = IF todo = {} THEN "pop"
                                           ELSE "members"]
  /\ react' = NoReact
  /\ UNCHANGED <<objVars, kvo_changeLevel, propertyRevision, op, fired,
                 batch, warm, hot, prevSet, isObserveringSuspended, regVars, auxVars>>

\* what an observer does when it is invoked
Reactions ==
  {[kind |-> "none", key |-> NoKey, val |-> Undef]} \cup
  {[kind |-> "set", key |-> k, val |-> v] : k \in Keys, v \in Vals} \cup
  {[kind |-> "get", key |-> k, val |-> Undef] : k \in ComputedKeys}

Reaction(r) ==
  CASE r.kind = "none" -> Self
    [] r.kind = "get" -> get(Self, r.key)
    [] r.kind = "set" -> clearCachedDependents(setBody(Self, r.key, r.val),
                                               r.key)

\* lines 809-814 and 834-838: one member of the observers of the key.
\* The handler of observeOnce throws after it has called the method: the
\* exception leaves _notifyPropertyObservers and its callers at once, with
\* the change level still raised (line 755) and the rest of the pass lost.
FlushNotify(item, r) ==
  /\ frame.pc = "members"
  /\ item \in frame.todo
  /\ item[1] = frame.cur \/ \A i \in frame.todo : i[1] # frame.cur
  /\ LET member == item[2]
         rest == frame.todo \ {item}
         regular == item[1] = frame.cur
         skipped == regular /\ kvo_observers[frame.cur][member] = frame.rev
         thrown == ~skipped /\ member = OncePair
     IN /\ frame' = IF thrown THEN Idle
                    ELSE [frame EXCEPT !.todo = rest,
                                       !.pc = IF rest = {} THEN "pop"
                                              ELSE "members"]
        /\ invoked' = IF thrown /\ invoked < MaxFired THEN invoked + 1
                      ELSE invoked
        /\ IF skipped
           THEN /\ r.kind = "none"
                /\ react' = NoReact
                /\ UNCHANGED <<objVars, fired, kvo_observers, op, warm, hot,
                               prevSet>>
           ELSE /\ r.kind = "set" => MayChange
                /\ kvo_observers' =
                     IF regular
                     THEN [kvo_observers EXCEPT ![frame.cur][member] = frame.rev]
                     ELSE kvo_observers
                /\ fired' = Record(fired, <<item[1], member, frame.cur>>)
                /\ LET s == Reaction(r) IN
                     /\ Install(s)
                     /\ react' = [kind |-> r.kind, key |-> r.key,
                                  val |-> r.val, ret |-> s.ret,
                                  calls |-> s.calls,
                                  warm0 |-> IF r.kind = "get" THEN warm[r.key]
                                            ELSE Undef,
                                  hot0 |-> IF r.kind = "get" THEN hot[r.key]
                                           ELSE Undef]
                     /\ op' = [op EXCEPT
                                !.rechanged = IF s.rev # kvo_revision
                                              THEN @ \cup {r.key} ELSE @,
                                !.done = @ \/ thrown,
                                !.raised = @ \/ thrown]
                     /\ warm' = Touch(warm, r.kind, r.key, s)
                     /\ hot' = Touch(hot, r.kind, r.key, s)
                     /\ prevSet' = IF r.kind = "set" /\ r.key \in ComputedKeys
                                   THEN [prevSet EXCEPT ![r.key] = r.val]
                                   ELSE prevSet
  /\ UNCHANGED <<kvo_changeLevel, propertyRevision, batch,
                 isObserveringSuspended, kvo_observed_keys, kvo_dependents,
                 kvo_cachedDependents, isCacheable, isVolatile,
                 revisionWindow, shareVars, stateVars, didChangeVars, chainVars>>

\* ------------------------------------- registries inherited from a prototype
\* An object whose prototype is an observable object finds the prototype's
\* _kvo_observers_<key>, _kvo_observed_keys, _kvo_dependents and
\* _kvo_cachedDependents where it has no own property of that name.  The
\* own properties are references into the heap, 0 where there is none.
Prototype == "proto"
Instances == {"x", "y"}
ObjectNames == {Prototype} \cup Instances
Absent == 0
SharedKey == "a"
DependentNames == {"p"}
MaxQueue == 2

NoProperties ==
  [cloned |-> Absent, observers |-> Absent, keys |-> Absent,
   dependents |-> Absent, cached |-> Absent]

NoMutation == [object |-> NoKey, name |-> "none"]

EmptyQueues == [k \in AllKeys |-> <<>>]

\* this[name]: the own property, or else the property of the prototype
Lookup(h, o, name) ==
  IF h.objects[o][name] # Absent \/ o = Prototype THEN h.objects[o][name]
  ELSE h.objects[Prototype][name]

\* this[name] = a new object holding val
Allocate(h, o, name, val) ==
  [objects |-> [h.objects EXCEPT ![o][name] = Len(h.heap) + 1],
   heap |-> Append(h.heap, val), ret |-> Len(h.heap) + 1]

\* _kvo_for(kvoKey, type), lines 501-520; empty is what type.create() or []
\* gives, and slice() gives a new object with the same members
kvo_for(h, o, kvoKey, empty) ==
  LET ret == Lookup(h, o, kvoKey)
      h1 == IF Lookup(h, o, "cloned") = Absent
            THEN Allocate(h, o, "cloned", {})
            ELSE h
      flags == Lookup(h1, o, "cloned")
  IN IF ret = Absent
     THEN LET h2 == Allocate(h1, o, kvoKey, empty)
          IN [h2 EXCEPT !.heap[flags] = @ \cup {kvoKey}]
     ELSE IF kvoKey \notin h1.heap[flags]
     THEN LET h2 == Allocate(h1, o, kvoKey, h1.heap[ret])
          IN [h2 EXCEPT !.heap[flags] = @ \cup {kvoKey}]
     ELSE [objects |-> h1.objects, heap |-> h1.heap, ret |-> ret]

\* addObserver(SharedKey, target, method) on the object o, lines 571-575
addObserverOf(h, o, member) ==
  LET h1 == kvo_for(h, o, "observers", {})
      h2 == [h1 EXCEPT !.heap[h1.ret] = @ \cup {member}]
      h3 == kvo_for(h2, o, "keys", {})
  IN [h3 EXCEPT !.heap[h3.ret] = @ \cup {SharedKey}]

\* removeObserver(SharedKey, target, method) on the object o, lines 615-624
removeObserverOf(h, o, member) ==
  IF Lookup(h, o, "observers") = Absent THEN h
  ELSE LET h1 == kvo_for(h, o, "observers", {})
           h2 == [h1 EXCEPT !.heap[h1.ret] = @ \ {member}]
       IN IF h2.heap[h1.ret] = {}
          THEN LET h3 == kvo_for(h2, o, "keys", {})
               IN [h3 EXCEPT !.heap[h3.ret] = @ \ {SharedKey}]
          ELSE h2

\* registerDependentKey(key, SharedKey) on the object o, lines 436-492: the
\* hashes found in this._kvo_dependents and this._kvo_cachedDependents are
\* the ones written to
registerDependentKeyOf(h, o, key) ==
  LET h1 == IF Lookup(h, o, "dependents") = Absent
            THEN Allocate(h, o, "dependents", EmptyQueues)
            ELSE h
      h2 == IF key \in ComputedKeys /\ key \in isCacheable
               /\ Lookup(h1, o, "cached") = Absent
            THEN Allocate(h1, o, "cached", EmptyQueues)
            ELSE h1
      d == Lookup(h2, o, "dependents")
      c == Lookup(h2, o, "cached")
      reg == registerDependentKey(
               [dependents |-> h2.heap[d],
                cached |-> IF c = Absent THEN EmptyQueues ELSE h2.heap[c]],
               key, SharedKey)
  IN [h2 EXCEPT !.heap = [i \in DOMAIN @ |->
                            IF i = d THEN reg.dependents
                            ELSE IF i = c THEN reg.cached ELSE @[i]]]

Heap == [objects |-> objects, heap |-> heap, ret |-> Absent]

\* the object of the other sections, which these calls leave alone
instanceVars ==
  <<objVars, kvo_changeLevel, propertyRevision, isObserveringSuspended,
    frame, op, fired, react, batch, warm, hot, prevSet, regVars,
    revisionWindow, didChangeVars, invoked, chainVars, stateVars>>

Store(h, o, name) ==
  /\ objects' = h.objects
  /\ heap' = h.heap
  /\ mutation' = [object |-> o, name |-> name]

AddObserverOn(o, member) ==
  /\ Store(addObserverOf(Heap, o, member), o, "addObserver")
  /\ UNCHANGED instanceVars

RemoveObserverOn(o, member) ==
  /\ Store(removeObserverOf(Heap, o, member), o, "removeObserver")
  /\ UNCHANGED instanceVars

RegisterDependentKeyOn(o, key) ==
  /\ LET d == Lookup(Heap, o, "dependents") IN
       d # Absent => Len(heap[d][SharedKey]) < MaxQueue
  /\ Store(registerDependentKeyOf(Heap, o, key), o, "registerDependentKey")
  /\ UNCHANGED instanceVars

\* what the object o finds in its registries: <<>> where it finds none
Registry(h, o, name) ==
  IF Lookup(h, o, name) = Absent THEN <<>>
  ELSE <<h.heap[Lookup(h, o, name)]>>

Seen(o) ==
  [observers |-> Registry(Heap, o, "observers"),
   keys |-> Registry(Heap, o, "keys"),
   dependents |-> Registry(Heap, o, "dependents"),
   cached |-> Registry(Heap, o, "cached")]

\* ------------------------------------------------------------ SC.Substate
\* dict[key] = val on an object literal
Put(dict, key, val) ==
  [x \in DOMAIN dict \cup {key} |-> IF x = key THEN val ELSE dict[x]]

\* dict[key] of an object literal is defined for the keys put in it and
\* for the members the literal inherits from Object.prototype
Defined(own, key) == key \in own \cup ObjectPrototype

First(S) == CHOOSE i \in S : \A j \in S : i <= j

RECURSIVE SeqOf(_)
SeqOf(S) ==
  IF S = {} THEN <<>>
  ELSE LET x == CHOOSE y \in S : TRUE IN <<x>> \o SeqOf(S \ {x})

\* SC.typeOf(this[name]) === SC.T_FUNCTION: the methods of the state, the
\* handler functions it declares and _sc_handleEventTransition (line 1564)
isFunction(name) ==
  name \in stateMethods \cup InheritedMethods
             \cup {eventHandlers[i].name : i \in DOMAIN eventHandlers}
             \cup {stateObserveHandlers[i].name :
                     i \in DOMAIN stateObserveHandlers}
             \cup {"_sc_handleEventTransition"}

\* the loop of _sc_registerEventHandler, lines 1707-1728
RECURSIVE registerEvents(_, _, _, _)
registerEvents(r, name, events, i) ==
  IF i > Len(events) THEN r
  ELSE IF events[i] \notin RegExps
       THEN registerEvents([r EXCEPT !.strings = Put(@, events[i], name)],
                           name, events, i + 1)
       ELSE registerEvents(
              [r EXCEPT !.regexps =
                 Append(@, [name |-> name, regexp |-> events[i]])],
              name, events, i + 1)

\* _sc_registerEventHandler(name, handler), lines 1699-1729
sc_registerEventHandler(r, name, events) ==
  registerEvents([r EXCEPT !.handlers = @ \cup {name}], name, events, 1)

\* the calls of _sc_registerEventHandler of the loop of initState, 1495-1498
RECURSIVE registerEventHandlers(_, _)
registerEventHandlers(r, i) ==
  IF i > Len(eventHandlers) THEN r
  ELSE registerEventHandlers(
         sc_registerEventHandler(r, eventHandlers[i].name,
                                 eventHandlers[i].events), i + 1)

\* SC.StatePathMatcher: an expression matches the paths that end with it
matches(expression, path) ==
  /\ Len(expression) <= Len(path)
  /\ \A i \in 1..Len(expression) :
       expression[i] = path[Len(path) - Len(expression) + i]

lastPart(expression) == expression[Len(expression)]

\* the registrations of the substates with this state, lines 1771-1784
registerSubstates(tree) ==
  [name \in {lastPart(path) : path \in tree} |->
     {path \in tree : lastPart(path) = name}]

\* _notifySubstateNotFound(callback, target, value, keys), lines 1893-1895
notifySubstateNotFound(callback, answer, keys) ==
  [ret |-> IF callback THEN answer ELSE NullState, called |-> callback,
   keys |-> keys, logged |-> FALSE]

getSubstate_firstMatch(paths, expr, callback, answer) ==
  IF expr = <<>>
  THEN notifySubstateNotFound(FALSE, answer, {})
  ELSE IF lastPart(expr) \notin DOMAIN paths
  THEN notifySubstateNotFound(callback, answer, {})
  ELSE LET found == {key \in paths[lastPart(expr)] : matches(expr, key)}
       IN IF Cardinality(found) >= 1
          THEN [ret |-> CHOOSE key \in found :
                          \A other \in found : Len(key) <= Len(other),
                called |-> FALSE, keys |-> {}, logged |-> FALSE]
          ELSE notifySubstateNotFound(callback, answer, {})

\* getSubstate(value, callback, target) for a path expression, lines
\* 1847-1890; a state is named by its path
getSubstate(paths, expr, callback, answer) ==
  IF expr = <<>>
  THEN notifySubstateNotFound(FALSE, answer, {})
  ELSE IF lastPart(expr) \notin DOMAIN paths
  THEN notifySubstateNotFound(callback, answer, {})
  ELSE LET found == {key \in paths[lastPart(expr)] : matches(expr, key)}
       IN IF Cardinality(found) = 1
          THEN [ret |-> CHOOSE key \in found : TRUE, called |-> FALSE,
                keys |-> {}, logged |-> FALSE]
          ELSE IF Cardinality(found) > 1
          THEN IF callback
               THEN notifySubstateNotFound(callback, answer,
                                           paths[lastPart(expr)])
               ELSE [notifySubstateNotFound(callback, answer, {})
                       EXCEPT !.logged = TRUE]
          ELSE notifySubstateNotFound(callback, answer, {})

\* the loop over the patterns of one event of eventTransitions, lines
\* 1545-1550: the key of a source is the state getSubstate finds, as a string
RECURSIVE compileTransitions(_, _, _, _)
compileTransitions(table, paths, patterns, i) ==
  IF i > Len(patterns) THEN table
  ELSE compileTransitions(
         Put(table,
             getSubstate(paths, patterns[i].source, FALSE, NullState).ret,
             patterns[i].target),
         paths, patterns, i + 1)

\* gotoSubstate(value, context), lines 1945-1956: the state handed to
\* statechart.gotoState, NullState when the transition is abandoned
gotoSubstate(expr) ==
  [target |-> expr,
   state |-> getSubstate(registeredSubstatePaths, expr, FALSE,
                         NullState).ret]

sc_handleEventTransition_lastEntered(eventName) ==
  LET table == transitionsForEvent[eventName]
      sources == {i \in 1..Len(enteredSubstates) :
                    enteredSubstates[i] \in DOMAIN table}
  IN IF sources = {} THEN [ret |-> "false", goto |-> <<>>]
     ELSE [ret |-> "true",
           goto |-> <<gotoSubstate(
                        table[enteredSubstates[
                                CHOOSE i \in sources :
                                  \A j \in sources : j <= i]])>>]

\* _sc_handleEventTransition(eventName, context), lines 1564-1582
sc_handleEventTransition(eventName) ==
  LET table == transitionsForEvent[eventName]
      sources == {i \in 1..Len(enteredSubstates) :
                    enteredSubstates[i] \in DOMAIN table}
  IN IF sources = {} THEN [ret |-> "false", goto |-> <<>>]
     ELSE [ret |-> "true",
           goto |-> <<gotoSubstate(
                        table[enteredSubstates[First(sources)]])>>]

Handled_truthy(result) == result \notin {"false", "0", Undef}

\* ret = (handler(...) !== NO), lines 2241, 2253, 2268, 2281
Handled(result) == result # "false"

\* the call of the selected function: a handler of the state returns
\* result, _sc_handleEventTransition is the function of line 1564
invoke(event, via, name, result) ==
  LET out == IF name = "_sc_handleEventTransition"
             THEN sc_handleEventTransition(event)
             ELSE [ret |-> result, goto |-> <<>>]
  IN [event |-> event, via |-> via, name |-> name, result |-> out.ret,
      ret |-> Handled(out.ret), warned |-> FALSE, goto |-> out.goto,
      calls |-> <<[to |-> "stateWillTryToHandleEvent", handler |-> name,
                   arg |-> Undef],
                  [to |-> "handler", handler |-> name, arg |-> Undef],
                  [to |-> "stateDidTryToHandleEvent", handler |-> name,
                   arg |-> IF Handled(out.ret) THEN "true" ELSE "false"]>>]

\* fault: when the function called returned false the later steps are tried
tryToHandleEvent_fallsThrough(event, result) ==
  LET none == [NoHandling EXCEPT !.event = event]
      method == IF isFunction(event)
                THEN invoke(event, "method", event, result) ELSE none
      string == IF event \in DOMAIN registeredStringEventHandlers
                THEN invoke(event, "string",
                            registeredStringEventHandlers[event], result)
                ELSE none
      unknown == IF isFunction("unknownEvent")
                 THEN invoke(event, "unknownEvent", "unknownEvent", result)
                 ELSE none
      Then(a, b) == IF a.ret THEN a
                    ELSE IF b.name = NoHandler THEN a
                    ELSE [b EXCEPT !.calls = a.calls \o @]
  IN IF Defined(registeredEventHandlers, event)
        \/ Defined(registeredStateObserveHandlers, event)
     THEN [none EXCEPT !.warned = TRUE]
     ELSE Then(Then(method, string), unknown)

\* tryToHandleEvent(event, arg1, arg2), lines 2214-2289
tryToHandleEvent(event, result) ==
  IF Defined(registeredEventHandlers, event)
  THEN [NoHandling EXCEPT !.event = event, !.via = "eventHandler",
                          !.warned = TRUE]
  ELSE IF Defined(registeredStateObserveHandlers, event)
  THEN [NoHandling EXCEPT !.event = event, !.via = "stateObserveHandler",
                          !.warned = TRUE]
  ELSE IF isFunction(event)
  THEN invoke(event, "method", event, result)
  ELSE IF event \in DOMAIN registeredStringEventHandlers
  THEN invoke(event, "string", registeredStringEventHandlers[event], result)
  ELSE LET hits == {i \in 1..Len(registeredRegExpEventHandlers) :
                      matchRegExp(event, registeredRegExpEventHandlers[i].regexp)}
       IN IF hits # {}
          THEN invoke(event, "regexp",
                      registeredRegExpEventHandlers[First(hits)].name,
                      result)
          ELSE IF isFunction("unknownEvent")
          THEN invoke(event, "unknownEvent", "unknownEvent", result)
          ELSE [NoHandling EXCEPT !.event = event]

\* respondsToEvent(event), lines 2475-2499
respondsToEvent(event) ==
  IF Defined(registeredEventHandlers, event) THEN FALSE
  ELSE IF isFunction(event) THEN TRUE
  ELSE IF event \in DOMAIN registeredStringEventHandlers THEN TRUE
  ELSE IF Defined(registeredStateObserveHandlers, event) THEN FALSE
  ELSE IF \E i \in 1..Len(registeredRegExpEventHandlers) :
            matchRegExp(event, registeredRegExpEventHandlers[i].regexp)
  THEN TRUE
  ELSE isFunction("unknownEvent")

kvoVars == <<objVars, kvo_changeLevel, propertyRevision,
             isObserveringSuspended, frame, op, fired, react, batch, warm,
             hot, prevSet, regVars, revisionWindow, shareVars, didChangeVars, invoked,
             chainVars>>

\* initState(), lines 1459-1562
InitState ==
  /\ ~stateIsInitialized
  /\ LET paths == registerSubstates(substateTree)
         r == registerEventHandlers(
                [handlers |-> {}, strings |-> EmptyMap, regexps |-> <<>>], 1)
         own == sc_registerEventHandler(r, "_sc_handleEventTransition",
                                        SeqOf(DOMAIN eventTransitions))
     IN /\ registeredSubstatePaths' = paths
        /\ registeredStateObserveHandlers' =
             {stateObserveHandlers[i].name :
                i \in {j \in DOMAIN stateObserveHandlers :
                         \A a \in Range(stateObserveHandlers[j].args) :
                           a.prefix \o a.path # ""}}
        /\ transitionsForEvent' =
             [eventName \in DOMAIN eventTransitions |->
                compileTransitions(EmptyMap, paths,
                                   eventTransitions[eventName], 1)]
        /\ registeredEventHandlers' = own.handlers
        /\ registeredStringEventHandlers' = own.strings
        /\ registeredRegExpEventHandlers' = own.regexps
  /\ enteredSubstates' = <<>>
  /\ stateIsInitialized' = TRUE
  /\ UNCHANGED <<kvoVars, chartVars, designVars, handling, lookup>>

\* the statechart enters a substate of the state and pushes it on
\* enteredSubstates; a substate is entered after its parent
EnterSubstate(path) ==
  /\ stateIsInitialized
  /\ path \in substateTree
  /\ path \notin Range(enteredSubstates)
  /\ Len(path) > 1 => SubSeq(path, 1, Len(path) - 1) \in Range(enteredSubstates)
  /\ enteredSubstates' = Append(enteredSubstates, path)
  /\ UNCHANGED <<kvoVars, chartVars, designVars, stateIsInitialized, registryVars,
                 handling, lookup>>

\* the statechart exits a substate and removes it from enteredSubstates
ExitSubstate(path) ==
  /\ stateIsInitialized
  /\ path \in Range(enteredSubstates)
  /\ \A other \in Range(enteredSubstates) :
       ~(Len(other) > Len(path) /\ SubSeq(other, 1, Len(path)) = path)
  /\ enteredSubstates' = SelectSeq(enteredSubstates, LAMBDA e : e # path)
  /\ UNCHANGED <<kvoVars, chartVars, designVars, stateIsInitialized, registryVars,
                 handling, lookup>>

\* tryToHandleEvent(event), the handler of a declared function returning
\* result
TryToHandleEvent(event, result) ==
  /\ stateIsInitialized
  /\ handling' = tryToHandleEvent(event, result)
  /\ UNCHANGED <<kvoVars, chartVars, designVars, stateIsInitialized, registryVars,
                 enteredSubstates, lookup>>

\* getSubstate(value) and getSubstate(value, callback), the callback
\* returning answer
GetSubstate(expr, callback, answer) ==
  /\ stateIsInitialized
  /\ lookup' = [expr |-> expr, callback |-> callback, answer |-> answer]
                 @@ getSubstate(registeredSubstatePaths, expr, callback,
                                answer)
  /\ UNCHANGED <<kvoVars, chartVars, designVars, stateIsInitialized, registryVars,
                 enteredSubstates, handling>>

\* ----------------------------------------------------- the specifications
InitRegistry ==
  LET empty == [k \in AllKeys |-> <<>>]
      r1 == registerDependentKey([dependents |-> empty, cached |-> empty],
                                 "q", "a")
  IN registerDependentKey(r1, "p", "q")

\* ------------------------------------------------ state observe handlers
\* the observers of the state as an observable object, and those that
\* SC.Observers holds
Observers ==
  [observers |-> kvo_observers, keys |-> kvo_observed_keys,
   chains |-> kvo_chains, all |-> chainObservers, queue |-> observersQueue]

\* addObserver(key, target, method), lines 537-578, with a method that
\* resolves
addObserver(r, key, member) ==
  IF key \in DottedPaths
  THEN [r EXCEPT !.all = Append(@, createChain(key, member)),
                 !.chains[key] = Append(@, Len(r.all) + 1)]
  ELSE [r EXCEPT !.observers[key] =
                   IF member \in DOMAIN @ THEN @
                   ELSE [m \in DOMAIN @ \cup {member} |->
                           IF m = member THEN 0 ELSE @[m]],
                 !.keys = @ \cup {key}]

\* removeObserver(key, target, method), lines 580-626
removeObserver(r, key, member) ==
  IF key \in DottedPaths
  THEN IF r.chains[key] = <<>> THEN r
       ELSE LET c == removeChains([chains |-> r.chains[key], all |-> r.all],
                                  member, Len(r.chains[key]))
            IN [r EXCEPT !.chains[key] = c.chains, !.all = c.all]
  ELSE LET observers == [m \in DOMAIN r.observers[key] \ {member} |->
                           r.observers[key][m]]
       IN [r EXCEPT !.observers[key] = observers,
                    !.keys = IF targets(observers) <= 0 THEN @ \ {key}
                             ELSE @]

\* this[action](path, this, observer)
configure(action, r, key, member) ==
  IF action = "addObserver" THEN addObserver(r, key, member)
  ELSE removeObserver(r, key, member)

\* SC.Observers[action](path, this, observer, root): a path from a root
\* is observed on the root, a path from the global object is held
configureGlobal(action, r, arg, member, root) ==
  IF root # NoKey THEN configure(action, r, arg.path, member)
  ELSE [r EXCEPT !.queue = IF action = "addObserver"
                           THEN @ \cup {<<arg.path, member>>}
                           ELSE @ \ {<<arg.path, member>>}]

configureStateObserveHandler_keysOnly(action, r, arg, member) ==
  IF arg.prefix = "" /\ arg.path \notin DottedPaths
  THEN configure(action, r, arg.path, member)
  ELSE IF action = "addObserver"
  THEN configureGlobal(action, r, arg, member, NoKey)
  ELSE r

\* the body of the loops of _configureAllStateObserveHandlers, lines
\* 2430-2460, for one path of one handler
configureStateObserveHandler(action, r, arg, member) ==
  IF arg.prefix \in {"", "*"} /\ arg.path \notin DottedPaths
  THEN configure(action, r, arg.prefix \o arg.path, member)
  ELSE IF arg.prefix = "*"
  THEN configure(action, r, arg.path, member)
  ELSE configureGlobal(action, r, arg, member,
                       IF arg.prefix \in {".", "this."} THEN "this"
                       ELSE NoKey)

\* the paths of the registered handlers, in the order of the loops
RegisteredObserveArgs ==
  LET handlers == SelectSeq(stateObserveHandlers,
                            LAMBDA h : h.name \in registeredStateObserveHandlers)
      RECURSIVE flatten(_)
      flatten(i) ==
        IF i > Len(handlers) THEN <<>>
        ELSE [j \in 1..Len(handlers[i].args) |->
                [name |-> handlers[i].name, arg |-> handlers[i].args[j]]]
               \o flatten(i + 1)
  IN flatten(1)

\* _configureAllStateObserveHandlers(action), lines 2426-2462
RECURSIVE configureAllStateObserveHandlers(_, _, _, _)
configureAllStateObserveHandlers(action, r, todo, i) ==
  IF i > Len(todo) THEN r
  ELSE configureAllStateObserveHandlers(
         action,
         configureStateObserveHandler(action, r, todo[i].arg,
                                      <<"this", todo[i].name>>),
         todo, i + 1)

InstallObservers(r) ==
  /\ kvo_observers' = r.observers
  /\ kvo_observed_keys' = r.keys
  /\ kvo_chains' = r.chains
  /\ chainObservers' = r.all
  /\ observersQueue' = r.queue
  /\ UNCHANGED <<objVars, kvo_changeLevel, propertyRevision,
                 isObserveringSuspended, frame, op, fired, react, batch,
                 warm, hot, prevSet, kvo_dependents, kvo_cachedDependents,
                 isCacheable, isVolatile, revisionWindow, shareVars, didChangeVars,
                 invoked, removal, designVars, stateIsInitialized, handling,
                 lookup, statechart, resolution, treeVars, treeCalls,
                 runVars>>

\* stateDidBecomeEntered(), lines 2339-2342, sent by the statechart to a
\* state it has entered
StateDidBecomeEntered ==
  /\ stateIsInitialized
  /\ ~lifecycle.destroyed
  /\ frame.pc = "idle"
  /\ LET r == configureAllStateObserveHandlers("addObserver", Observers,
                                               RegisteredObserveArgs, 1)
     IN /\ Len(r.all) <= MaxChains
        /\ InstallObservers(r)
  /\ lifecycle' = [lifecycle EXCEPT !.entered = TRUE]
  /\ UNCHANGED <<registryVars, enteredSubstates>>

\* stateWillBecomeExited(), lines 2377-2380
StateWillBecomeExited ==
  /\ stateIsInitialized
  /\ ~lifecycle.destroyed
  /\ frame.pc = "idle"
  /\ InstallObservers(
       configureAllStateObserveHandlers("removeObserver", Observers,
                                        RegisteredObserveArgs, 1))
  /\ lifecycle' = [lifecycle EXCEPT !.entered = FALSE]
  /\ UNCHANGED <<registryVars, enteredSubstates>>

\* destroy(), lines 1410-1457, of a state without substates
Destroy ==
  /\ ~lifecycle.destroyed
  /\ frame.pc = "idle"
  /\ InstallObservers(
       configureAllStateObserveHandlers("removeObserver", Observers,
                                        RegisteredObserveArgs, 1))
  /\ lifecycle' = [entered |-> FALSE, destroyed |-> TRUE]
  /\ enteredSubstates' = <<>>
  /\ registeredEventHandlers' = {}
  /\ registeredStringEventHandlers' = EmptyMap
  /\ registeredRegExpEventHandlers' = <<>>
  /\ registeredStateObserveHandlers' = {}
  /\ registeredSubstatePaths' = EmptyMap
  /\ UNCHANGED transitionsForEvent

\* ------------------------------------------------------- the state tree
name(state) == IF state = Root THEN "__ROOT_STATE__" ELSE lastPart(state)

parentState(state) == SubSeq(state, 1, Len(state) - 1)

\* state.pathRelativeTo(ancestor), lines 1793-1806
pathRelativeTo(state, ancestor) ==
  SubSeq(state, Len(ancestor) + 1, Len(state))

\* this._registeredSubstatePaths of a state: every descendant has
\* registered itself with it (lines 1760-1786)
registeredPaths(state) ==
  registerSubstates(
    {pathRelativeTo(d, state) :
       d \in {e \in initializedStates :
                /\ Len(e) > Len(state)
                /\ SubSeq(e, 1, Len(state)) = state}})

\* the state a relative path of a state names
substateAt(state, path) == IF path = NullState THEN NullState ELSE state \o path

RECURSIVE getState_thisLevel(_, _)
getState_thisLevel(state, expr) ==
  IF expr = <<name(state)>> THEN [ret |-> state, logged |-> FALSE]
  ELSE LET r == getSubstate(registeredPaths(state), expr, FALSE, NullState)
       IN [ret |-> substateAt(state, r.ret), logged |-> r.logged]

\* getState(value) with _handleSubstateNotFound as the callback of
\* getSubstate, lines 1914-1932
RECURSIVE getState(_, _)
getState(state, expr) ==
  IF expr = <<name(state)>> THEN [ret |-> state, logged |-> FALSE]
  ELSE LET r == getSubstate(registeredPaths(state), expr, TRUE, NullState)
       IN IF ~r.called
          THEN [ret |-> substateAt(state, r.ret), logged |-> FALSE]
          ELSE IF state # Root THEN getState(parentState(state), expr)
          ELSE [ret |-> NullState, logged |-> r.keys # {}]

\* getState(value) called on a state
GetState(state, expr) ==
  /\ state \in initializedStates
  /\ resolution' = [state |-> state, expr |-> expr]
                     @@ getState(state, expr)
  /\ UNCHANGED <<kvoVars, designVars, stateIsInitialized, registryVars,
                 enteredSubstates, handling, lookup, statechart, treeVars,
                 treeCalls, runVars, observeVars>>

\* the substate classes the design of a state declares, in the order
\* for (key in this) meets them
declaredSubstates(state) ==
  SeqOf({c \in statechart.states :
           Len(c) = Len(state) + 1 /\ parentState(c) = state})

declaredInitial(state) ==
  IF state \in DOMAIN statechart.initial
  THEN statechart.initial[state] ELSE NoInitial

\* the initialSubstate a state has before its substates are created: the
\* name its design declares or, lines 1478-1480, the history state made
\* of the SC.HistoryState class it declares
declaredRef(state) ==
  IF declaredInitial(state) = NoInitial THEN NoRef
  ELSE IF state \in statechart.history
  THEN HistoryRef(declaredInitial(state), NullState)
  ELSE NameRef(declaredInitial(state))

\* what initState works on: the substates, the initialSubstate and the
\* stateIsInitialized of the states created so far
Tree ==
  [substates |-> substates, initial |-> initialSubstate,
   initialized |-> initializedStates]

\* createSubstate(state, attr) with the pushes of _addSubstate (lines
\* 1601-1609) or _addEmptyInitialSubstateIfNeeded (lines 1591-1594)
createSubstate(r, state, child) ==
  [r EXCEPT !.substates = Put(Put(@, state, Append(@[state], child)),
                              child, <<>>),
            !.initial = Put(@, child, declaredRef(child))]

\* _addEmptyInitialSubstateIfNeeded(), lines 1585-1598; the empty state
\* has no design, so that its initState only marks it initialized
addEmptyInitialSubstateIfNeeded(r, state) ==
  IF r.initial[state].kind # "null" \/ state \in statechart.concurrent
  THEN r
  ELSE LET empty == state \o <<EmptyStateName>>
           r1 == createSubstate(r, state, empty)
       IN [r1 EXCEPT !.initial = Put(@, state, StateRef(empty)),
                     !.initialized = @ \cup {empty}]

\* initState(), lines 1459-1536 and 1558-1561, of a state and, through
\* _addSubstate, of the substates its design declares
RECURSIVE initState(_, _)
RECURSIVE addSubstates(_, _, _, _)
addSubstates(r, state, classes, i) ==
  IF i > Len(classes) THEN r
  ELSE LET r1 == initState(createSubstate(r, state, classes[i]), classes[i])
           r2 == IF name(classes[i]) = declaredInitial(state)
                 THEN [r1 EXCEPT !.initial =
                         Put(@, state,
                             IF state \in statechart.history
                             THEN HistoryRef(name(classes[i]), classes[i])
                             ELSE StateRef(classes[i]))]
                 ELSE r1
       IN addSubstates(r2, state, classes, i + 1)

\* lines 1462-1561, what initState does after its first line
initializeState(r, state) ==
  LET r0 == [r EXCEPT !.substates = Put(@, state, <<>>)]
      r1 == addSubstates(r0, state, declaredSubstates(state), 1)
      added == addEmptyInitialSubstateIfNeeded(r1, state)
      r2 == IF r1.substates[state] = <<>> THEN r1
            ELSE IF added = r1 /\ declaredInitial(state) # NoInitial
                    /\ state \in statechart.concurrent
            THEN [r1 EXCEPT !.initial = Put(@, state, NoRef)]
            ELSE added
  IN [r2 EXCEPT !.initialized = @ \cup {state}]

initState(r, state) ==
  IF state \in r.initialized THEN r ELSE initializeState(r, state)

InstallTree(r) ==
  /\ substates' = r.substates
  /\ initialSubstate' = r.initial
  /\ initializedStates' = r.initialized

\* initState() called on a state that has been created
InitStateOf(state) ==
  /\ state \in DOMAIN substates
  /\ InstallTree(initState(Tree, state))
  /\ initialization' =
       [state |-> state, wasInitialized |-> state \in initializedStates]
  /\ addition' = NoAddition
  /\ UNCHANGED <<kvoVars, designVars, stateIsInitialized, registryVars,
                 enteredSubstates, handling, lookup, statechart,
                 resolution, runVars, observeVars>>

\* this[name] !== undefined, line 1648
definedProperty(r, state, n) ==
  \/ n \in StateProperties
  \/ n \in {name(c) : c \in Range(r.substates[state])}
  \/ n \in {name(c) : c \in Range(declaredSubstates(state))}

addSubstate_unchecked(r, state, n, v) ==
  [tree |-> initState(createSubstate(r, state, state \o <<n>>),
                      state \o <<n>>),
   ret |-> state \o <<n>>, logged |-> FALSE]

\* addSubstate(name, state, attr), lines 1642-1679
addSubstate(r, state, n, v) ==
  IF \/ n = ""
     \/ definedProperty(r, state, n)
     \/ state \notin r.initialized
     \/ v \notin {"class", "hash"}
  THEN [tree |-> r, ret |-> NullState, logged |-> TRUE]
  ELSE LET child == state \o <<n>>
           r1 == initState(createSubstate(r, state, child), child)
       IN [tree |-> addEmptyInitialSubstateIfNeeded(r1, state),
           ret |-> child, logged |-> FALSE]

addedStates ==
  {s \in DOMAIN substates :
     s \notin statechart.states /\ name(s) # EmptyStateName}

AddSubstate(state, n, v) ==
  /\ state \in DOMAIN substates
  /\ LET r == addSubstate(Tree, state, n, v)
     IN /\ r.ret # NullState => Cardinality(addedStates) < MaxAdded
        /\ InstallTree(r.tree)
        /\ addition' = [state |-> state, name |-> n, value |-> v,
                        ret |-> r.ret, logged |-> r.logged]
  /\ initialization' = NoInitialization
  /\ UNCHANGED <<kvoVars, designVars, stateIsInitialized, registryVars,
                 enteredSubstates, handling, lookup, statechart,
                 resolution, runVars, observeVars>>

\* ------------------------------------------------- entering and exiting
\* ancestor is state or one of its ancestors
isAncestorOrSelf(ancestor, state) ==
  Len(ancestor) <= Len(state) /\ SubSeq(state, 1, Len(ancestor)) = ancestor

\* enteredSubstates and currentSubstates of a state: the statechart
\* pushes a state on the array of the state itself and of each ancestor
enteredSubstatesOf(state) ==
  SelectSeq(enteredSubstates, LAMBDA e : isAncestorOrSelf(state, e))

currentSubstatesOf(state) ==
  SelectSeq(currentSubstates, LAMBDA c : isAncestorOrSelf(state, c))

\* stateIsCurrentSubstate(state), lines 2036-2040
stateIsCurrentSubstate(state, substate) ==
  substate \in Range(currentSubstatesOf(state))

\* stateIsEnteredSubstate(state), lines 2048-2052
stateIsEnteredSubstate(state, substate) ==
  substate \in Range(enteredSubstatesOf(state))

isCurrentState_entered(state) == stateIsEnteredSubstate(state, state)

\* isCurrentState, lines 2068-2070
isCurrentState(state) == stateIsCurrentSubstate(state, state)

\* isEnteredState, lines 2088-2090
isEnteredState(state) == stateIsEnteredSubstate(state, state)

\* _registeredSubstates, line 1775: the initialized states below state
registeredSubstates(state) ==
  {d \in initializedStates : isAncestorOrSelf(state, d) /\ d # state}

\* getSubstate(value) of a state of the tree, lines 1847-1890, value being
\* a state or a path expression
getSubstateOf(state, v) ==
  IF v.kind = "state"
  THEN [ret |-> IF v.state = NullState THEN NullState
                ELSE IF v.state \in registeredSubstates(state)
                THEN v.state ELSE NullState,
        logged |-> FALSE]
  ELSE LET r == getSubstate(registeredPaths(state), v.expr, FALSE, NullState)
       IN [ret |-> substateAt(state, r.ret), logged |-> r.logged]

findFirstRelativeCurrentState_own(state, anchor) ==
  IF isCurrentState(state) THEN state
  ELSE IF Len(currentSubstatesOf(state)) = 0 THEN NullState
  ELSE currentSubstatesOf(state)[1]

\* findFirstRelativeCurrentState(anchor), lines 2139-2156
RECURSIVE findFirstRelativeCurrentState(_, _)
findFirstRelativeCurrentState(state, anchor) ==
  IF isCurrentState(state) THEN state
  ELSE LET current == currentSubstatesOf(state)
       IN IF Len(current) = 0
          THEN IF state # Root
               THEN findFirstRelativeCurrentState(parentState(state),
                                                  NullState)
               ELSE NullState
          ELSE LET found == IF Len(current) > 1
                            THEN getSubstateOf(state, StateValue(anchor)).ret
                            ELSE NullState
               IN IF found # NullState
                  THEN findFirstRelativeCurrentState(found, NullState)
                  ELSE current[1]

Reverse(s) == [i \in 1..Len(s) |-> s[Len(s) + 1 - i]]

\* the state below which a transition from one state to another exits
\* and enters, by its depth: their lowest common ancestor that is not the
\* target itself, and none (-1) for the root state as target
pivotDepth(from, target) ==
  LET common == {n \in 0..(Len(target) - 1) :
                   /\ n <= Len(from)
                   /\ SubSeq(from, 1, n) = SubSeq(target, 1, n)}
  IN IF target = Root THEN -1
     ELSE CHOOSE n \in common : \A m \in common : m <= n

\* the entered states a transition exits, deepest first: the state from
\* which it starts and its ancestors below the pivot, with every entered
\* state of their other regions
statesToExit(from, target) ==
  IF from = NullState \/ Len(from) <= pivotDepth(from, target) THEN <<>>
  ELSE LET top == SubSeq(from, 1, pivotDepth(from, target) + 1)
       IN Reverse(SelectSeq(enteredSubstates,
                            LAMBDA e : isAncestorOrSelf(top, e)))

\* the states entered with a state, parent before child: on the way to
\* the target the substate that leads there, below it the initial
\* substate, and every substate of a state with concurrent substates
RECURSIVE traverseStatesToEnter(_, _)
RECURSIVE traverseSubstatesToEnter(_, _, _)
traverseSubstatesToEnter(regions, i, target) ==
  IF i > Len(regions) THEN <<>>
  ELSE traverseStatesToEnter(regions[i], target)
         \o traverseSubstatesToEnter(regions, i + 1, target)

traverseStatesToEnter(state, target) ==
  <<state>> \o
  IF substates[state] = <<>> THEN <<>>
  ELSE IF state \in statechart.concurrent
  THEN traverseSubstatesToEnter(substates[state], 1, target)
  ELSE IF isAncestorOrSelf(state, target) /\ state # target
  THEN traverseStatesToEnter(SubSeq(target, 1, Len(state) + 1), target)
  ELSE IF initialSubstate[state].kind = "state"
  THEN traverseStatesToEnter(initialSubstate[state].state, target)
  ELSE IF /\ initialSubstate[state].kind = "history"
          /\ initialSubstate[state].state # NullState
  THEN traverseStatesToEnter(initialSubstate[state].state, target)
  ELSE <<>>

statesToEnter(from, target) ==
  IF from = NullState
  THEN SelectSeq(traverseStatesToEnter(Root, target),
                 LAMBDA s : s \notin Range(enteredSubstates))
  ELSE traverseStatesToEnter(
         SubSeq(target, 1, pivotDepth(from, target) + 1), target)

NoTransit == [exits |-> <<>>, enters |-> <<>>]

\* statechart.gotoState(state, fromState): the exits and the entries of
\* the transition, in the order in which they are made. A transition
\* from one substate of a state with concurrent substates to another is
\* not carried out: each of them stays entered on its own
gotoState(target, from) ==
  IF /\ from # NullState
     /\ pivotDepth(from, target) >= 0
     /\ SubSeq(target, 1, pivotDepth(from, target)) \in statechart.concurrent
  THEN NoTransit
  ELSE [exits |-> statesToExit(from, target),
        enters |-> statesToEnter(from, target)]

\* the state the history state of a state stands for: the state recorded
\* when the state was last exited, its defaultState before that; a state
\* without a history state stands for itself
historyOf(state) ==
  IF initialSubstate[state].kind # "history" THEN state
  ELSE IF state \in DOMAIN historyState THEN historyState[state]
  ELSE IF initialSubstate[state].state # NullState
  THEN initialSubstate[state].state
  ELSE state

\* statechart.gotoHistoryState(state, fromCurrentState): the transition
\* to the state the history of the state stands for
statechart_gotoHistoryState(state, from) ==
  gotoState(historyOf(state), from)

\* the current state below a state among the states a transition exits
exitedLeaf(exits, state) ==
  LET leaves == SelectSeq(exits,
                          LAMBDA e : /\ e \in Range(currentSubstates)
                                     /\ e # state
                                     /\ isAncestorOrSelf(state, e))
  IN IF leaves = <<>> THEN NullState ELSE leaves[1]

\* the exits of a transition, recorded by the states with a history
\* state: each notes the current state in which it is left
RECURSIVE recordHistory(_, _, _)
recordHistory(h, exits, i) ==
  IF i > Len(exits) THEN h
  ELSE recordHistory(
         IF /\ initialSubstate[exits[i]].kind = "history"
            /\ exitedLeaf(exits, exits[i]) # NullState
         THEN Put(h, exits[i], exitedLeaf(exits, exits[i]))
         ELSE h,
         exits, i + 1)

\* the first entry, from the i-th on, whose enterSubstate returns
\* this.performAsync(..); 0 if there is none
asyncAt(enters, i) ==
  LET hits == {j \in i..Len(enters) : enters[j] \in statechart.async}
  IN IF hits = {} THEN 0
     ELSE CHOOSE j \in hits : \A k \in hits : j <= k

\* the bookkeeping of a transition carried out
Transit(r) ==
  /\ enteredSubstates' =
       SelectSeq(enteredSubstates, LAMBDA e : e \notin Range(r.exits))
         \o r.enters
  /\ currentSubstates' =
       SelectSeq(currentSubstates, LAMBDA c : c \notin Range(r.exits))
         \o SelectSeq(r.enters, LAMBDA s : substates[s] = <<>>)

\* gotoSubstate(value), lines 1945-1956, of a state of the tree
gotoSubstateOf(state, v) ==
  LET found == getSubstateOf(state, v)
  IN IF found.ret = NullState
     THEN [target |-> NullState, from |-> NullState, logged |-> TRUE,
           requested |-> FALSE] @@ NoTransit
     ELSE LET from == findFirstRelativeCurrentState(state, found.ret)
          IN [target |-> found.ret, from |-> from, logged |-> found.logged,
              requested |-> TRUE] @@ gotoState(found.ret, from)

gotoHistoryState_unchecked(state, expr) ==
  LET from == findFirstRelativeCurrentState(state, NullState)
  IN [target |-> state, from |-> from, logged |-> FALSE,
      requested |-> TRUE] @@ gotoState(state, from)

gotoHistoryState_initial(state, expr) ==
  LET found == getState(state, expr)
  IN IF found.ret = NullState
     THEN [target |-> NullState, from |-> NullState, logged |-> TRUE,
           requested |-> FALSE] @@ NoTransit
     ELSE LET from == findFirstRelativeCurrentState(state, found.ret)
          IN [target |-> found.ret, from |-> from, logged |-> found.logged,
              requested |-> TRUE] @@ gotoState(found.ret, from)

\* gotoHistoryState(value), lines 2009-2020: the statechart goes to the
\* history of the state the value names, which is the state itself when
\* its design declares no history state
gotoHistoryState(state, expr) ==
  LET found == getState(state, expr)
  IN IF found.ret = NullState
     THEN [target |-> NullState, from |-> NullState, logged |-> TRUE,
           requested |-> FALSE] @@ NoTransit
     ELSE LET from == findFirstRelativeCurrentState(state, found.ret)
          IN [target |-> historyOf(found.ret), from |-> from,
              logged |-> found.logged, requested |-> TRUE]
               @@ statechart_gotoHistoryState(found.ret, from)

\* reenter(), lines 2162-2168
reenter(state) ==
  IF isEnteredState(state)
  THEN gotoSubstateOf(state, StateValue(state))
  ELSE [target |-> NullState, from |-> NullState, logged |-> TRUE,
        requested |-> FALSE] @@ NoTransit

\* a transition goes on with its i-th entry: it is held up by the first
\* enterSubstate that returns this.performAsync(..), and carried out when
\* there is none
Proceed(req, i) ==
  IF asyncAt(req.enters, i) # 0
  THEN /\ suspended' = [active |-> TRUE, at |-> asyncAt(req.enters, i),
                        request |-> req]
       /\ UNCHANGED <<enteredSubstates, currentSubstates>>
  ELSE /\ suspended' = NoSuspension
       /\ Transit(req)

\* a transition asked of the statechart while another is held up is an
\* error, logged and not carried out
refused(r) == [r EXCEPT !.logged = TRUE, !.exits = <<>>, !.enters = <<>>]

Call(routine, state, expr, r) ==
  /\ IF ~r.requested
     THEN /\ request' = [op |-> routine, state |-> state, expr |-> expr]
                          @@ r
          /\ UNCHANGED <<enteredSubstates, currentSubstates, historyState,
                         suspended>>
     ELSE IF suspended.active
     THEN /\ request' = [op |-> routine, state |-> state, expr |-> expr]
                          @@ refused(r)
          /\ UNCHANGED <<enteredSubstates, currentSubstates, historyState,
                         suspended>>
     ELSE /\ request' = [op |-> routine, state |-> state, expr |-> expr]
                          @@ r
          /\ historyState' = recordHistory(historyState, r.exits, 1)
          /\ Proceed(request', 1)
  /\ UNCHANGED <<kvoVars, designVars, stateIsInitialized, registryVars,
                 handling, lookup, statechart, resolution, treeVars,
                 treeCalls, observeVars>>

resumeGotoState_ignored(state) ==
  [op |-> "resumeGotoState", state |-> state, expr |-> <<>>,
   target |-> NullState, from |-> NullState, logged |-> FALSE,
   requested |-> FALSE, exits |-> <<>>, enters |-> <<>>]

\* resumeGotoState(), lines 2025-2027: the state hands the call on to its
\* statechart, for which it is an error when no transition is held up
resumeGotoState(state) ==
  IF suspended.active
  THEN [suspended.request EXCEPT !.op = "resumeGotoState",
                                 !.state = state, !.expr = <<>>]
  ELSE [op |-> "resumeGotoState", state |-> state, expr |-> <<>>,
        target |-> NullState, from |-> NullState, logged |-> TRUE,
        requested |-> FALSE, exits |-> <<>>, enters |-> <<>>]

\* resumeGotoState() called on a state: the transition held up goes on
\* after the entry that held it up
ResumeGotoState(state) ==
  /\ state \in initializedStates
  /\ request' = resumeGotoState(state)
  /\ IF suspended.active /\ request'.requested
     THEN Proceed(suspended.request, suspended.at + 1)
     ELSE UNCHANGED <<enteredSubstates, currentSubstates, suspended>>
  /\ UNCHANGED historyState
  /\ UNCHANGED <<kvoVars, designVars, stateIsInitialized, registryVars,
                 handling, lookup, statechart, resolution, treeVars,
                 treeCalls, observeVars>>

\* the statechart enters its root state once the states are initialized
EnterRootState ==
  /\ Root \in initializedStates
  /\ enteredSubstates = <<>>
  /\ Call("initStatechart", Root, <<>>,
          [target |-> Root, from |-> NullState, logged |-> FALSE,
           requested |-> TRUE] @@ gotoState(Root, NullState))

GotoSubstate(state, expr) ==
  /\ state \in initializedStates
  /\ Call("gotoSubstate", state, expr,
          gotoSubstateOf(state, PathValue(expr)))

GotoHistoryState(state, expr) ==
  /\ state \in initializedStates
  /\ Call("gotoHistoryState", state, expr,
          gotoHistoryState(state, expr))

Reenter(state) ==
  /\ state \in initializedStates
  /\ Call("reenter", state, <<>>, reenter(state))

\* the root state of a statechart, created
InitStatechart(charts) ==
  /\ statechart \in charts
  /\ resolution = NoResolution
  /\ substates = [s \in {Root} |-> <<>>]
  /\ initialSubstate = [s \in {Root} |-> declaredRef(Root)]
  /\ initializedStates = {}
  /\ initialization = NoInitialization
  /\ addition = NoAddition
  /\ currentSubstates = <<>>
  /\ observersQueue = {}
  /\ lifecycle = NotEntered
  /\ request = NoRequest
  /\ historyState = EmptyMap
  /\ suspended = NoSuspension

\* a state as SC.Substate.create builds it: the properties of its design
\* and the empty registries of init(), lines 1385-1392
InitSubstate(methods, handlers, observes, tables, trees) ==
  /\ stateMethods \in methods
  /\ eventHandlers \in handlers
  /\ stateObserveHandlers \in observes
  /\ eventTransitions \in tables
  /\ substateTree \in trees
  /\ stateIsInitialized = FALSE
  /\ registeredEventHandlers = {}
  /\ registeredStringEventHandlers = EmptyMap
  /\ registeredRegExpEventHandlers = <<>>
  /\ registeredStateObserveHandlers = {}
  /\ registeredSubstatePaths = EmptyMap
  /\ transitionsForEvent = EmptyMap
  /\ enteredSubstates = <<>>
  /\ handling = NoHandling
  /\ lookup = NoLookup

\* the registries the prototype has when its instances are made: none, or
\* an observer set for SharedKey with its observed keys, and none or the
\* dependents of SharedKey.  No object has a _kvo_cloned hash yet.
Defaults ==
  {[observers |-> s, dependents |-> d] :
     s \in {<<>>, <<{}>>, <<{<<"this", "f">>}>>},
     d \in {<<>>, <<[EmptyQueues EXCEPT ![SharedKey] = <<"q">>]>>}}

NoDefaults == [observers |-> <<>>, dependents |-> <<>>]

InitPrototype(defaults) ==
  \E dflt \in defaults :
    LET h0 == [objects |-> [o \in ObjectNames |-> NoProperties],
               heap |-> <<>>, ret |-> Absent]
        h1 == IF dflt.observers = <<>> THEN h0
              ELSE LET s == Allocate(h0, Prototype, "observers",
                                     dflt.observers[1])
                   IN Allocate(s, Prototype, "keys",
                               IF dflt.observers[1] = {} THEN {}
                               ELSE {SharedKey})
        h2 == IF dflt.dependents = <<>> THEN h1
              ELSE LET s == Allocate(h1, Prototype, "dependents",
                                     dflt.dependents[1])
                   IN Allocate(s, Prototype, "cached", dflt.dependents[1])
    IN /\ objects = h2.objects
       /\ heap = h2.heap
       /\ mutation = NoMutation

InitInstance(volatile, window) ==
  /\ value = [k \in PlainKeys |-> Undef]
  /\ backing = "1"
  /\ cache = [k \in ComputedKeys |-> Undef]
  /\ lastSet = [k \in ComputedKeys |-> Undef]
  /\ isCacheable = {"q", "p"}
  /\ isVolatile \in volatile
  /\ kvo_changeLevel = 0
  /\ kvo_changes = <<>>
  /\ kvo_revision = 0
  /\ propertyRevision = 1
  /\ kvo_observers = [k \in AllKeys |-> <<>>]
  /\ kvo_observed_keys = {}
  /\ kvo_dependents = InitRegistry.dependents
  /\ kvo_cachedDependents = InitRegistry.cached
  /\ isObserveringSuspended = FALSE
  /\ frame = Idle
  /\ op = QuietOp
  /\ fired = EmptyBag
  /\ react = NoReact
  /\ batch = NoBatch
  /\ warm = [k \in ComputedKeys |-> Undef]
  /\ hot = [k \in ComputedKeys |-> Undef]
  /\ prevSet = [k \in ComputedKeys |-> Undef]
  /\ revisionWindow = window
  /\ kvo_didChange_valueCache = [x \in Contexts |-> [k \in Keys |-> Undef]]
  /\ kvo_didChange_revisionCache =
       [x \in Contexts |-> [k \in Keys |-> NoRevision]]
  /\ lastSeen = [x \in Contexts |-> [k \in Keys |-> Never]]
  /\ probe = NoProbe
  /\ invoked = 0
  /\ kvo_chains = [path \in DottedPaths |-> <<>>]
  /\ chainObservers = <<>>
  /\ removal = NoRemoval

InitObservable(volatile, window) ==
  /\ InitInstance(volatile, window)
  /\ InitPrototype({NoDefaults})

InitObject(volatile, window) ==
  /\ InitObservable(volatile, window)
  /\ InitSubstate({{}}, {<<>>}, {<<>>}, {NoTransitions}, {{}})
  /\ InitStatechart({NoStatechart})

InitWith(volatile) == InitObject(volatile, 0)

\* Notification: observers, batches, dependent keys
NotifyKeys == {"a", "q"}
NotifyReactions == {r \in Reactions : r.kind = "none" \/
                      (r.kind = "set" /\ r.key = "a")}

InitNotify == InitWith({{}})

NextNotify ==
  \/ \E val \in Vals : Set("a", val)
  \/ \E key \in NotifyKeys : PropertyDidChange(key)
  \/ BeginPropertyChanges
  \/ EndPropertyChanges
  \/ AllPropertiesDidChange
  \/ \E key \in ObservableKeys, m \in ObserverPairs : AddObserver(key, m)
  \/ \E key \in ObservableKeys, m \in ObserverPairs : RemoveObserver(key, m)
  \/ FlushLoop
  \/ FlushPop
  \/ \E item \in frame.todo, r \in NotifyReactions : FlushNotify(item, r)

SpecNotify == InitNotify /\ [][NextNotify]_vars

\* Suspension: propertyDidChange while SC.Observers has suspended observing
InitSuspend == InitWith({{}})

NextSuspend ==
  \/ \E val \in Vals : Set("a", val)
  \/ \E key \in NotifyKeys : PropertyDidChange(key)
  \/ BeginPropertyChanges
  \/ EndPropertyChanges
  \/ \E key \in ObservableKeys, m \in ObserverPairs : AddObserver(key, m)
  \/ SuspendPropertyObserving
  \/ ResumePropertyObserving
  \/ FlushLoop
  \/ FlushPop
  \/ \E item \in frame.todo, r \in NotifyReactions : FlushNotify(item, r)

SpecSuspend == InitSuspend /\ [][NextSuspend]_vars

\* Computed properties: get and set, caches, batches, one observer
CacheObservers == {<<"this", "f">>}
CacheReactions == {r \in Reactions : r.kind # "set" \/ r.key = "a"}

InitCache == InitWith({{}, {"c"}})

NextCache ==
  \/ \E key \in Keys : Get(key)
  \/ \E key \in Keys, val \in Vals : Set(key, val)
  \/ \E key \in Keys : PropertyDidChange(key)
  \/ BeginPropertyChanges
  \/ EndPropertyChanges
  \/ \E m \in CacheObservers : AddObserver("a", m)
  \/ FlushLoop
  \/ FlushPop
  \/ \E item \in frame.todo, r \in CacheReactions : FlushNotify(item, r)

SpecCache == InitCache /\ [][NextCache]_vars

\* Dependent keys: the cacheable properties q and p and the key a
DependKeys == {"a", "q", "p"}
DependReactions == {r \in CacheReactions : r.key \in DependKeys \cup {NoKey}}

InitDepend == InitWith({{}})

NextDepend ==
  \/ \E key \in DependKeys : Get(key)
  \/ \E key \in DependKeys, val \in Vals : Set(key, val)
  \/ \E key \in DependKeys : PropertyDidChange(key)
  \/ BeginPropertyChanges
  \/ EndPropertyChanges
  \/ \E m \in CacheObservers : AddObserver("a", m)
  \/ FlushLoop
  \/ FlushPop
  \/ \E item \in frame.todo, r \in DependReactions : FlushNotify(item, r)

SpecDepend == InitDepend /\ [][NextDepend]_vars

\* Flushes that go on: the revisions are kept modulo RevisionWindow, and the
\* code of a flush that has started keeps running (weak fairness)
InitLive == InitObject({{}}, RevisionWindow)

FlushStep ==
  \/ FlushLoop
  \/ FlushPop
  \/ \E item \in frame.todo, r \in NotifyReactions : FlushNotify(item, r)

NextLive ==
  \/ \E val \in Vals : Set("a", val)
  \/ BeginPropertyChanges
  \/ EndPropertyChanges
  \/ \E m \in CacheObservers : AddObserver("a", m)
  \/ FlushLoop
  \/ FlushPop
  \/ \E item \in frame.todo, r \in NotifyReactions : FlushNotify(item, r)

SpecLive == InitLive /\ [][NextLive]_vars /\ WF_vars(FlushStep)

\* Property paths: getPath, setPath and setPathIfChanged
InitPath == InitWith({{}})

NextPath ==
  \/ \E path \in Paths, tuple \in {"this", "null", "nullObject"} :
       GetPath(path, tuple)
  \/ \E path \in Paths, tuple \in {"this", "null", "nullObject"},
        val \in Vals : SetPath(path, tuple, val)
  \/ \E path \in Paths, tuple \in {"this", "null", "nullObject"},
        val \in Vals : SetPathIfChanged(path, tuple, val)
  \/ BeginPropertyChanges
  \/ EndPropertyChanges
  \/ \E m \in CacheObservers : AddObserver("a", m)
  \/ FlushLoop
  \/ FlushPop
  \/ \E item \in frame.todo, r \in NotifyReactions : FlushNotify(item, r)

SpecPath == InitPath /\ [][NextPath]_vars

\* didChangeFor between changes of the properties
InitDidChange == InitWith({{}})

NextDidChange ==
  \/ \E val \in Vals : Set("a", val)
  \/ PropertyDidChange("c")
  \/ \E context \in Contexts, keys \in KeyLists : DidChangeFor(context, keys)
  \/ FlushLoop
  \/ FlushPop

SpecDidChange == InitDidChange /\ [][NextDidChange]_vars

\* observeOnce and the changes that follow it
InitOnce == InitWith({{}})

NextOnce ==
  \/ ObserveOnce("a")
  \/ \E val \in Vals : Set("a", val)
  \/ BeginPropertyChanges
  \/ EndPropertyChanges
  \/ FlushLoop
  \/ FlushPop
  \/ \E item \in frame.todo, r \in NotifyReactions : FlushNotify(item, r)

SpecOnce == InitOnce /\ [][NextOnce]_vars

\* Inherited registries: two instances of a prototype register observers
\* and dependent keys
InitShare ==
  /\ InitInstance({{}}, 0)
  /\ InitPrototype(Defaults)
  /\ InitSubstate({{}}, {<<>>}, {<<>>}, {NoTransitions}, {{}})
  /\ InitStatechart({NoStatechart})

NextShare ==
  \/ \E o \in Instances, m \in ObserverPairs : AddObserverOn(o, m)
  \/ \E o \in Instances, m \in ObserverPairs : RemoveObserverOn(o, m)
  \/ \E o \in Instances, key \in DependentNames :
       RegisterDependentKeyOn(o, key)

SpecShare == InitShare /\ [][NextShare]_vars

\* Registration: addObserver and removeObserver, also with a method name
\* that does not resolve
InitRegister == InitWith({{}})

NextRegister ==
  \/ \E key \in ObservableKeys, m \in ObserverPairs \cup {MissingPair} :
       AddObserver(key, m)
  \/ \E key \in ObservableKeys, m \in ObserverPairs \cup {MissingPair} :
       RemoveObserver(key, m)
  \/ \E val \in Vals : Set("a", val)
  \/ BeginPropertyChanges
  \/ EndPropertyChanges
  \/ FlushLoop
  \/ FlushPop
  \/ \E item \in frame.todo, r \in NotifyReactions : FlushNotify(item, r)

SpecRegister == InitRegister /\ [][NextRegister]_vars

\* Chains: observers of dotted paths
InitChain == InitWith({{}})

NextChain ==
  \/ \E path \in DottedPaths, m \in ChainPairs : AddObserverChain(path, m)
  \/ \E path \in DottedPaths, m \in ChainPairs : RemoveObserverChain(path, m)

SpecChain == InitChain /\ [][NextChain]_vars

\* a state with event handlers, state observe handlers and methods
InitEvent ==
  /\ InitObservable({{}}, 0)
  /\ InitStatechart({NoStatechart})
  /\ InitSubstate(SUBSET DeclaredMethods, HandlerDeclarations,
                  ObserveDeclarations,
                  {table \in TransitionTables : DOMAIN table \subseteq {"go"}},
                  {{<<"a">>, <<"b">>}})

NextEvent ==
  \/ InitState
  \/ \E path \in substateTree : EnterSubstate(path)
  \/ \E event \in Events, result \in Results :
       TryToHandleEvent(event, result)

SpecEvent == InitEvent /\ [][NextEvent]_vars


\* a state with eventTransitions whose substates are entered and exited
InitTransition ==
  /\ InitObservable({{}}, 0)
  /\ InitStatechart({NoStatechart})
  /\ InitSubstate({{}}, {<<>>, <<[name |-> "onGo", events |-> <<"go">>]>>},
                  {<<>>}, TransitionTables, SubstateTrees)

NextTransition ==
  \/ InitState
  \/ \E path \in substateTree : EnterSubstate(path)
  \/ \E path \in substateTree : ExitSubstate(path)
  \/ \E event \in {"go", "undo", "halt"}, result \in Results :
       TryToHandleEvent(event, result)

SpecTransition == InitTransition /\ [][NextTransition]_vars

\* a state with substates that are looked up by path expressions
InitLookup ==
  /\ InitObservable({{}}, 0)
  /\ InitStatechart({NoStatechart})
  /\ InitSubstate({{}}, {<<>>}, {<<>>}, {NoTransitions}, SubstateTrees)

NextLookup ==
  \/ InitState
  \/ \E expr \in Expressions : GetSubstate(expr, FALSE, NullState)
  \/ \E expr \in Expressions, answer \in Answers :
       GetSubstate(expr, TRUE, answer)

SpecLookup == InitLookup /\ [][NextLookup]_vars

\* the states of a statechart, asked for states by path expressions
InitChart ==
  /\ InitObservable({{}}, 0)
  /\ InitSubstate({{}}, {<<>>}, {<<>>}, {NoTransitions}, {{}})
  /\ InitStatechart(Statecharts)

NextResolve ==
  \/ InitStateOf(Root)
  \/ \E state \in initializedStates, expr \in StateExpressions :
       GetState(state, expr)

SpecResolve == InitChart /\ [][NextResolve]_vars

\* the states of a statechart, initialized and added to
InitTree ==
  /\ InitObservable({{}}, 0)
  /\ InitSubstate({{}}, {<<>>}, {<<>>}, {NoTransitions}, {{}})
  /\ InitStatechart(Statecharts \cup {Misdeclared})

NextTree ==
  \/ \E state \in DOMAIN substates : InitStateOf(state)
  \/ \E state \in DOMAIN substates, n \in AddNames, v \in AddValues :
       AddSubstate(state, n, v)

SpecTree == InitTree /\ [][NextTree]_vars

\* the states of a statechart, entered and exited by transitions
NextGoto ==
  \/ InitStateOf(Root)
  \/ EnterRootState
  \/ \E state \in initializedStates, expr \in GotoExpressions :
       GotoSubstate(state, expr)
  \/ \E state \in initializedStates, expr \in GotoExpressions :
       GotoHistoryState(state, expr)
  \/ \E state \in initializedStates : Reenter(state)

SpecGoto == InitChart /\ [][NextGoto]_vars

\* transitions of a statechart with a history state, or with states whose
\* enterSubstate is asynchronous
RunExpressions == {<<"A">>, <<"B">>, <<"C">>, <<"y">>, <<"bar">>}
InitRun(charts) ==
  /\ InitObservable({{}}, 0)
  /\ InitSubstate({{}}, {<<>>}, {<<>>}, {NoTransitions}, {{}})
  /\ InitStatechart(charts)

NextRun ==
  \/ InitStateOf(Root)
  \/ EnterRootState
  \/ \E state \in initializedStates, expr \in RunExpressions :
       GotoSubstate(state, expr)
  \/ \E state \in initializedStates, expr \in RunExpressions :
       GotoHistoryState(state, expr)
  \/ \E state \in initializedStates : Reenter(state)
  \/ \E state \in initializedStates : ResumeGotoState(state)

SpecAsync == InitRun({Suspending}) /\ [][NextRun]_vars
SpecHistory == InitRun({Remembering}) /\ [][NextRun]_vars

\* a state with state observe handlers, entered, exited and destroyed,
\* next to observers added and removed by hand
InitObserve ==
  /\ InitObservable({{}}, 0)
  /\ InitStatechart({NoStatechart})
  /\ InitSubstate({{}}, {<<>>}, ObservePathDeclarations, {NoTransitions},
                  {{}})

NextObserve ==
  \/ InitState
  \/ StateDidBecomeEntered
  \/ StateWillBecomeExited
  \/ Destroy
  \/ \E key \in ObservableKeys, m \in ObserverPairs : AddObserver(key, m)
  \/ \E key \in ObservableKeys, m \in ObserverPairs : RemoveObserver(key, m)

SpecObserve == InitObserve /\ [][NextObserve]_vars

TypeOK ==
  /\ value \in [PlainKeys -> AnyVal]
  /\ cache \in [ComputedKeys -> AnyVal]
  /\ lastSet \in [ComputedKeys -> AnyVal]
  /\ kvo_changeLevel \in 0..(MaxLevel + 1)
  /\ Range(kvo_changes) \subseteq AllKeys
  /\ kvo_observed_keys \subseteq AllKeys
  /\ frame.pc \in {"idle", "loop", "pop", "members"}

\* ------------------------------------------------------------- properties
Notified(k, m) == CopiesIn(<<k, m, k>>, fired)

C4_FlushOnlyAtOutermostEnd ==
  /\ (op.name \in {"set", "propertyDidChange"} /\ op.level0 > 0)
       => (~op.flushed /\ fired = EmptyBag)
  /\ op.name = "endPropertyChanges"
       => (op.flushed <=> (op.level0 <= 1 /\ op.pending0))
  /\ (op.name = "endPropertyChanges" /\ op.level0 > 1)
       => (fired = EmptyBag /\ kvo_changeLevel = op.level0 - 1
           /\ (op.pending0 => kvo_changes # <<>>))
  /\ (op.name = "endPropertyChanges" /\ op.flushed /\ op.done)
       => kvo_changeLevel = 0

C4_Witness ==
  /\ op.name = "endPropertyChanges" /\ op.level0 = 2 /\ op.pending0
  /\ \E k \in Range(kvo_changes) : DOMAIN kvo_observers[k] # {}

\* C5: propertyDidChange(key) called at a change level above zero, or while
\* observing is suspended, invokes no observer and leaves key in the pending
\* set; otherwise every observer of key has been invoked when it returns.
C5_PropertyDidChange ==
  op.name = "propertyDidChange" =>
    IF op.level0 > 0 \/ op.susp0
    THEN /\ op.done /\ ~op.flushed
         /\ fired = EmptyBag
         /\ op.key \in Range(kvo_changes)
    ELSE /\ op.flushed
         /\ op.done => \A m \in DOMAIN kvo_observers[op.key] :
                         Notified(op.key, m) >= 1

C5_Witness ==
  /\ op.name = "propertyDidChange" /\ op.susp0 /\ op.level0 = 0
  /\ DOMAIN kvo_observers[op.key] # {}
  /\ op.key \in Range(kvo_changes)

\* C6 (as claimed): outside of a batch, every set(key, v) has notified every
\* observer of key when it returns, whether or not v differs from the
\* current value.
C6_NotifiedOnEverySet ==
  (op.name = "set" /\ op.done /\ op.level0 = 0 /\ ~op.susp0)
    => \A m \in DOMAIN kvo_observers[op.key] : Notified(op.key, m) >= 1

\* C9: no step decreases _kvo_revision or propertyRevision, and every call
\* of propertyDidChange makes _kvo_revision strictly larger, also when the
\* change is only queued.
C9_RevisionIncreases ==
  [][/\ kvo_revision' >= kvo_revision
     /\ propertyRevision' >= propertyRevision
     /\ (frame.pc = "idle" /\ op'.name = "propertyDidChange")
          => kvo_revision' > kvo_revision
     /\ (frame.pc = "idle" /\ op'.name = "set" /\ kvo_changes' # kvo_changes)
          => kvo_revision' > kvo_revision]_vars

C9_Witness ==
  /\ op.name = "propertyDidChange" /\ op.level0 > 0
  /\ op.key \in Range(kvo_changes)
  /\ kvo_revision > op.rev0

\* C10: when allPropertiesDidChange has returned, every observer of every
\* key that has an observer has been invoked for that key, also at a change
\* level above zero; the observed-key set it notifies holds exactly the keys
\* that have an observer.
C10_AllPropertiesDidChange ==
  /\ kvo_observed_keys = {k \in AllKeys : DOMAIN kvo_observers[k] # {}}
  /\ op.name = "allPropertiesDidChange" => op.flushed
  /\ (op.name = "allPropertiesDidChange" /\ op.done)
       => \A k \in AllKeys : \A m \in DOMAIN kvo_observers[k] :
            Notified(k, m) >= 1

C10_Witness ==
  /\ op.name = "allPropertiesDidChange" /\ op.done /\ op.level0 > 0
  /\ \E k \in AllKeys : \E m \in DOMAIN kvo_observers[k] : Notified(k, m) >= 1

\* the value a computed property has for the current values of the
\* properties it is computed from
TrueValue(key) ==
  CASE key \in {"q", "p"} ->
         IF value["a"] = Undef THEN Zero ELSE value["a"]
    [] key = "c" -> backing
    [] OTHER -> value[key]

\* C2 (as claimed): after set(B, v) the cache of every cacheable property
\* registered as dependent on B is empty, and once a get(P) has computed P,
\* every later get(P) returns that value without invoking the function,
\* until B or P is set or changed again.
C2_CachedUntilBaseChanges ==
  /\ (op.name = "set" /\ op.done)
       => \A P \in Range(kvo_cachedDependents[op.key]) : cache[P] = Undef
  /\ (op.name = "get" /\ op.warm0 # Undef)
       => (op.key \notin op.calls /\ op.ret = op.warm0)
  /\ (react.kind = "get" /\ react.warm0 # Undef)
       => (react.key \notin react.calls /\ react.ret = react.warm0)

\* C2 (amended): ... until B or P is set or changed again, or a flush
\* notifies P (the flush of endPropertyChanges for a change made in the
\* batch clears the cache once more).
C2_CachedUntilChangeOrFlush ==
  /\ (op.name = "set" /\ op.done)
       => \A d \in DeclaredDependencies :
            (d[2] = op.key /\ d[1] \in isCacheable) => cache[d[1]] = Undef
  /\ (op.name = "get" /\ op.key \in ComputedKeys /\ op.key \in isCacheable)
       => /\ op.hot0 # Undef
               => (op.key \notin op.calls /\ op.ret = op.hot0)
          /\ op.key \in op.calls => cache[op.key] = op.ret
  /\ (react.kind = "get" /\ react.hot0 # Undef)
       => (react.key \notin react.calls /\ react.ret = react.hot0)

C2_Witness ==
  /\ op.name = "get" /\ op.key = "q" /\ op.hot0 # Undef
  /\ op.key \notin op.calls
  /\ value["a"] # Undef /\ op.ret = value["a"]

\* C3 (as claimed): a get of a cacheable computed property returns the value
\* the property has for the current values of its dependencies, never a
\* value cached before they changed; at the client's level and in observers.
C3_NeverStale ==
  /\ (op.name = "get" /\ op.key \in isCacheable)
       => op.ret = TrueValue(op.key)
  /\ (react.kind = "get" /\ react.key \in isCacheable)
       => react.ret = TrueValue(react.key)

\* C7 (as claimed): set(key, v) on a computed property that is not volatile
\* neither invokes the function nor notifies when v is the value passed by
\* the previous set of key; on a volatile one it always invokes it.
C7_SetDeduplicates ==
  (op.name = "set" /\ op.key \in ComputedKeys) =>
    IF op.key \in isVolatile THEN op.key \in op.calls
    ELSE op.val = op.prev0
           => (op.key \notin op.calls /\ ~op.flushed /\ fired = EmptyBag)

\* C8 (as claimed): when set(key, v) on a cacheable computed property has
\* invoked the function and returned, the cache holds the function's result.
C8_SetUpdatesCache ==
  (op.name = "set" /\ op.done /\ op.key \in isCacheable
   /\ op.key \in op.calls)
    => cache[op.key] = op.ret

\* a flush is running / an observer has just queued a further change
FlushRunning == frame.pc # "idle"
Requeued == FlushRunning /\ react.kind = "set" /\ kvo_changes # <<>>

C12_AbsentLinkIsNoOp ==
  [][(/\ frame.pc = "idle"
      /\ op'.name \in {"getPath", "setPath", "setPathIfChanged"}
      /\ op'.tuple \in {"null", "nullObject"})
       => (~op'.raised /\ UNCHANGED <<objVars, kvo_changeLevel, frame>>)]_vars

\* C13 (as claimed): didChangeFor(context, k1..kn), every ki having been
\* listed in an earlier call with the same context, returns true exactly
\* when the value of some ki differs from the value ki had at the last such
\* call.
C13_DidChangeFor ==
  (/\ op.name = "didChangeFor"
   /\ \A k \in Range(probe.keys) : probe.before[k] # Never)
    => (op.ret = "true"
          <=> \E k \in Range(probe.keys) : probe.now[k] # probe.before[k])

\* C14 (as claimed): the method given to observeOnce(key, target, method)
\* is invoked at most once, and once it has been invoked and the call that
\* notified it has returned, the handler is no longer an observer of key.
C14_ObservedOnce ==
  /\ invoked <= 1
  /\ (invoked = 1 /\ frame.pc = "idle")
       => \A k \in AllKeys : OncePair \notin DOMAIN kvo_observers[k]

\* C15 (as claimed): addObserver and removeObserver called with a method
\* that does not resolve return without throwing and leave the observers
\* and the observed keys as they were.
C15_UnresolvedMethodIsNoOp ==
  [][(/\ frame.pc = "idle"
      /\ op'.name \in {"addObserver", "removeObserver"}
      /\ op'.val = MissingPair[2])
       => (~op'.raised /\ UNCHANGED <<kvo_observers, kvo_observed_keys>>)]_vars

\* the chains in the chain list of their path
Listed(id) == id \in Range(kvo_chains[chainObservers[id].path])

\* the chains addObserver(removal.path, target, method) created for the
\* target and method of the last removeObserver
Removed(id) ==
  /\ chainObservers[id].path = removal.path
  /\ chainObservers[id].masterTarget = removal.member[1]
  /\ chainObservers[id].masterMethod = removal.member[2]

\* C16: when removeObserver(path, target, method) has returned, every chain
\* created for that path, target and method is destroyed and not in the
\* chain list of the path, and every other chain that was live before the
\* call is still live and in its list.
C16_ChainsRemoved ==
  removal # NoRemoval =>
    \A id \in 1..Len(chainObservers) :
      IF Removed(id)
      THEN chainObservers[id].destroyed /\ ~Listed(id)
      ELSE id \in removal.live0
             => (~chainObservers[id].destroyed /\ Listed(id))

C16_Witness ==
  /\ removal # NoRemoval
  /\ Cardinality({id \in removal.live0 : Removed(id)}) >= 2
  /\ \E id \in removal.live0 :
       ~Removed(id) /\ chainObservers[id].path = removal.path

\* the function the last tryToHandleEvent called is the one of the claimed
\* order for the registrations of the state
Selected(event) ==
  IF event \in registeredEventHandlers \cup registeredStateObserveHandlers
  THEN NoHandler
  ELSE IF isFunction(event) THEN event
  ELSE IF event \in DOMAIN registeredStringEventHandlers
  THEN registeredStringEventHandlers[event]
  ELSE IF \E i \in DOMAIN registeredRegExpEventHandlers :
            matchRegExp(event, registeredRegExpEventHandlers[i].regexp)
  THEN registeredRegExpEventHandlers[
         First({i \in DOMAIN registeredRegExpEventHandlers :
                  matchRegExp(event,
                              registeredRegExpEventHandlers[i].regexp)})].name
  ELSE IF isFunction("unknownEvent") THEN "unknownEvent"
  ELSE NoHandler

\* C17 (as claimed): tryToHandleEvent(event) calls nothing and returns
\* not-handled when event is the name of a registered event handler or
\* state observe handler; otherwise it calls the method named event;
\* otherwise the handler registered for the string event; otherwise the
\* first registered handler whose regular expression matches; otherwise
\* unknownEvent; otherwise it calls nothing and returns not-handled.
C17_ResolutionOrder ==
  handling # NoHandling =>
    /\ handling.name = Selected(handling.event)
    /\ handling.name = NoHandler => ~handling.ret

\* C18: when tryToHandleEvent has called a function, it reports the event
\* as not handled if the function returned false, and as handled for every
\* other return value, the absence of one included.
C18_FalseIsNotHandled ==
  handling.name # NoHandler =>
    (handling.ret <=> handling.result # "false")

C18_Witness ==
  /\ handling.via = "regexp"
  /\ handling.result \in {Undef, "0"}
  /\ handling.ret

\* the substates of the state that a path expression designates
Matching(expr) ==
  {path \in substateTree : expr # <<>> /\ matches(expr, path)}

\* the entered substates, by position, that a pattern of the event
\* declares as source
DeclaredSources(eventName) ==
  {i \in 1..Len(enteredSubstates) :
     \E n \in DOMAIN eventTransitions[eventName] :
       Matching(eventTransitions[eventName][n].source)
         = {enteredSubstates[i]}}

\* the target of the pattern of the event whose source is the substate
DeclaredTarget(eventName, substate) ==
  LET n == CHOOSE m \in DOMAIN eventTransitions[eventName] :
             Matching(eventTransitions[eventName][m].source) = {substate}
  IN eventTransitions[eventName][n].target

\* C19: when tryToHandleEvent hands an event of eventTransitions to
\* _sc_handleEventTransition, the state requests one transition, to the
\* target declared for the first entered substate that is a declared
\* source of the event, and the event is handled; when no entered substate
\* is a declared source it requests none and the event is not handled.
C19_OneTransition ==
  [][(/\ handling' # handling
      /\ handling'.name = "_sc_handleEventTransition")
       => LET eventName == handling'.event
              sources == DeclaredSources(eventName)
          IN IF sources = {}
             THEN handling'.goto = <<>> /\ ~handling'.ret
             ELSE /\ Len(handling'.goto) = 1
                  /\ handling'.goto[1].target =
                       DeclaredTarget(eventName,
                                      enteredSubstates[First(sources)])
                  /\ handling'.ret]_vars

C19_Witness ==
  /\ handling.name = "_sc_handleEventTransition"
  /\ enteredSubstates = <<(<<"a">>), (<<"b">>)>>
  /\ handling.goto = <<[target |-> <<"b">>, state |-> <<"b">>]>>

\* C20: getSubstate(expr) returns a state only when one registered
\* substate path matches expr, and then that state; when more than one
\* matches it logs an error and returns null if no callback is given, and
\* logs nothing and returns what the callback returns if one is given.
C20_UniqueMatch ==
  LET n == Cardinality(Matching(lookup.expr))
  IN /\ n = 1 => lookup.ret \in Matching(lookup.expr) /\ ~lookup.logged
     /\ (~lookup.callback /\ lookup.ret # NullState) => n = 1
     /\ (n > 1 /\ ~lookup.callback)
          => lookup.logged /\ lookup.ret = NullState
     /\ (n > 1 /\ lookup.callback)
          => ~lookup.logged /\ lookup.called /\ lookup.ret = lookup.answer

C20_Witness ==
  /\ Cardinality(Matching(lookup.expr)) > 1
  /\ lookup.callback
  /\ lookup.ret = <<"a">>

\* C21 (as claimed): the paths getSubstate hands to its callback when
\* more than one substate matches the expression are the relative paths
\* of the substates that matched, and no other path.
C21_CallbackPathsMatch ==
  (lookup.called /\ Cardinality(Matching(lookup.expr)) > 1)
    => lookup.keys = Matching(lookup.expr)

\* the state and its ancestors, from the state up to the root state
RECURSIVE Levels(_)
Levels(state) ==
  IF state = Root THEN <<Root>> ELSE <<state>> \o Levels(parentState(state))

\* the descendants of a level that a path expression designates
MatchingBelow(level, expr) ==
  {d \in initializedStates :
     /\ expr # <<>>
     /\ Len(d) > Len(level)
     /\ SubSeq(d, 1, Len(level)) = level
     /\ matches(expr, pathRelativeTo(d, level))}

\* a level yields a state: its name is the expression, or one descendant
\* matches
Yields(level, expr) ==
  \/ expr = <<name(level)>>
  \/ Cardinality(MatchingBelow(level, expr)) = 1

\* C22: getState(value) on a state returns what the first of the levels
\* state, parent, ..., root yields at which value is the level's name (the
\* level itself) or one descendant of the level matches (that descendant),
\* and null when no level yields a state.
C22_FirstLevelThatYields ==
  LET levels == Levels(resolution.state)
      hits == {i \in DOMAIN levels : Yields(levels[i], resolution.expr)}
  IN resolution # NoResolution =>
       IF hits = {} THEN resolution.ret = NullState
       ELSE LET level == levels[First(hits)]
            IN IF resolution.expr = <<name(level)>>
               THEN resolution.ret = level
               ELSE resolution.ret \in MatchingBelow(level, resolution.expr)

C22_Witness ==
  /\ resolution.ret # NullState
  /\ Len(resolution.ret) <= Len(resolution.state)
  /\ ~Yields(resolution.state, resolution.expr)
  /\ Cardinality(MatchingBelow(resolution.state, resolution.expr)) > 1

\* C24: after initState every state with substates that are not concurrent
\* has as initialSubstate a state whose parent it is, never a name that was
\* not resolved, and every state with concurrent substates has null
C24_InitialSubstateResolved ==
  \A state \in initializedStates :
    /\ (substates[state] # <<>> /\ state \notin statechart.concurrent) =>
         /\ initialSubstate[state].kind = "state"
         /\ initialSubstate[state].state \in Range(substates[state])
    /\ state \in statechart.concurrent => initialSubstate[state] = NoRef

\* C25: initState called on a state that is initialized leaves the
\* substates, the initialSubstate and the registrations of every state,
\* enteredSubstates and currentSubstates as they were
C25_InitStateIdempotent ==
  [][(initialization' # initialization /\ initialization'.wasInitialized)
       => UNCHANGED <<treeVars, enteredSubstates, currentSubstates>>]_vars

C25_Witness ==
  /\ initialization.wasInitialized
  /\ initialization.state \in initializedStates
  /\ substates[initialization.state] # <<>>

\* addSubstate refused the call of the step: the name was empty or a
\* defined property, the state not initialized, or the value unfit
Refused(unfit) ==
  /\ addition' \notin {addition, NoAddition}
  /\ \/ addition'.name = ""
     \/ definedProperty(Tree, addition'.state, addition'.name)
     \/ addition'.state \notin initializedStates
     \/ addition'.value \in unfit

\* C27: addSubstate returns null and leaves substates, initialSubstate and
\* registrations unchanged when the name is empty or a defined property,
\* the state is not initialized, or the value is not a state class
C27_RefusedAddition ==
  [][Refused({"hash", "object"})
       => addition'.ret = NullState /\ UNCHANGED treeVars]_vars

\* C27 amended: the value that makes addSubstate return null is one that
\* is neither a state class nor, as the second of two arguments, a hash
\* of attributes
C27_RefusedAdditionAmended ==
  [][Refused({"object"})
       => addition'.ret = NullState /\ UNCHANGED treeVars]_vars

C27_Witness ==
  /\ addition.state \in initializedStates
  /\ addition.name = "new"
  /\ addition.value = "object"
  /\ ~definedProperty(Tree, addition.state, "new")
  /\ addition.ret = NullState
  /\ addedStates # {}

\* C23: findFirstRelativeCurrentState returns null or a current state, and
\* null only when neither the state nor any of its ancestors has a current
\* substate
C23_FirstRelativeCurrentState ==
  \A state \in initializedStates, anchor \in initializedStates \cup {NullState} :
    LET found == findFirstRelativeCurrentState(state, anchor)
    IN /\ found # NullState => isCurrentState(found)
       /\ found = NullState =>
            \A level \in initializedStates :
              isAncestorOrSelf(level, state) =>
                currentSubstatesOf(level) = <<>>

C23_Witness ==
  \E state \in initializedStates, anchor \in initializedStates :
    /\ Len(currentSubstatesOf(state)) > 1
    /\ findFirstRelativeCurrentState(state, anchor) \notin
         {NullState, currentSubstatesOf(state)[1]}
    /\ \E other \in initializedStates :
         /\ currentSubstatesOf(other) = <<>>
         /\ findFirstRelativeCurrentState(other, NullState) # NullState

\* the step is a call of gotoSubstate or of gotoHistoryState with a value
\* that resolves to no state
Unresolved ==
  /\ request' # request
  /\ \/ /\ request'.op = "gotoSubstate"
        /\ getSubstateOf(request'.state, PathValue(request'.expr)).ret
             = NullState
     \/ /\ request'.op = "gotoHistoryState"
        /\ getState(request'.state, request'.expr).ret = NullState

\* C26: gotoSubstate and gotoHistoryState with a value that resolves to no
\* state log an error and ask the statechart for nothing: no state is
\* exited or entered, enteredSubstates and currentSubstates stay
C26_InvalidTargetAbandoned ==
  [][Unresolved =>
       /\ request'.logged /\ ~request'.requested
       /\ request'.exits = <<>> /\ request'.enters = <<>>
       /\ UNCHANGED <<enteredSubstates, currentSubstates>>]_vars

C26_Witness ==
  /\ request.op = "gotoHistoryState"
  /\ request.expr = <<"zap">>
  /\ request.logged /\ ~request.requested
  /\ enteredSubstates # <<>>

\* C28: reenter asks the statechart for a transition of the state to
\* itself if and only if the state is entered; on a state that is not
\* entered it only logs an error
C28_ReenterWhenEntered ==
  [][(request' # request /\ request'.op = "reenter") =>
       /\ request'.requested = isEnteredState(request'.state)
       /\ request'.requested => request'.target = request'.state
       /\ ~isEnteredState(request'.state) => request'.logged]_vars

\* a path of a handler is observed: on the state, through a chain of the
\* state, or by SC.Observers
Observed(handler, arg) ==
  LET member == <<"this", handler>>
  IN IF arg.prefix = "" /\ arg.path \in DottedPaths
     THEN <<arg.path, member>> \in observersQueue
     ELSE IF arg.path \in DottedPaths
     THEN \E i \in DOMAIN kvo_chains[arg.path] :
            /\ kvo_chains[arg.path][i] # 0
            /\ ~chainObservers[kvo_chains[arg.path][i]].destroyed
            /\ chainObservers[kvo_chains[arg.path][i]].masterTarget = "this"
            /\ chainObservers[kvo_chains[arg.path][i]].masterMethod = handler
     ELSE member \in DOMAIN kvo_observers[arg.path]

ValidHandlers ==
  {i \in DOMAIN stateObserveHandlers :
     \A a \in Range(stateObserveHandlers[i].args) : a # EmptyArg}

\* C29: the state observe handlers of a state are registered as observers
\* if and only if the state has received stateDidBecomeEntered and since
\* then neither stateWillBecomeExited nor destroy
C29_ObservedWhileEntered ==
  \A i \in ValidHandlers :
    \A a \in Range(stateObserveHandlers[i].args) :
      Observed(stateObserveHandlers[i].name, a) <=> lifecycle.entered

C29_Witness ==
  /\ lifecycle.entered
  /\ Cardinality(ValidHandlers) = 2
  /\ observersQueue # {}
  /\ \E id \in DOMAIN chainObservers : chainObservers[id].destroyed
  /\ Registrations # {}

\* the step is a transition from a current state, carried out
Completed ==
  /\ request' # request
  /\ request'.requested
  /\ request'.from # NullState
  /\ request'.enters # <<>>

\* no state of the sequence comes after one of its descendants (parent
\* before child), or before one of them (child before parent)
ParentFirst(s) ==
  \A i, j \in DOMAIN s : (i < j) => ~isAncestorOrSelf(s[j], s[i])

ChildFirst(s) ==
  \A i, j \in DOMAIN s : (i < j) => ~isAncestorOrSelf(s[i], s[j])

\* the entered states below the lowest common ancestor of the source and
\* the target of the transition of the step
EnteredBelowAncestor ==
  {e \in Range(enteredSubstates) :
     LET depth == pivotDepth(request'.from, request'.target)
     IN /\ Len(e) > depth
        /\ depth >= 0 => SubSeq(e, 1, depth) = SubSeq(request'.target, 1, depth)}

ObserverSet == react'.kind = "set" /\ frame.pc = "members"

C33_SetWhileFlushing ==
  [][/\ ObserverSet =>
          LET s == setBody(Self, react'.key, react'.val) IN
            /\ ~s.flush
            /\ s.rev # kvo_revision => react'.key \in Range(kvo_changes')
            /\ react'.key \notin Range(frame'.changes)
                  \/ react'.key \in Range(frame.changes)
            /\ Range(frame'.changes) = Range(frame.changes)
            /\ kvo_changeLevel' = kvo_changeLevel
            /\ frame'.pc \in {"members", "pop"}
     /\ (frame.pc = "loop" /\ kvo_changes # <<>>) =>
          /\ frame'.pc = "pop"
          /\ Range(kvo_changes) \subseteq Range(frame'.changes)
          /\ kvo_changes' = <<>>
          /\ kvo_changeLevel' = kvo_changeLevel
     /\ (frame.pc = "pop" /\ frame.changes # <<>>) =>
          /\ frame'.cur = frame.changes[Len(frame.changes)]
          /\ {i[2] : i \in {j \in frame'.todo : j[1] = frame'.cur}}
               = DOMAIN kvo_observers[frame'.cur]
          /\ frame'.todo # {} => frame'.pc = "members"
     /\ (frame.pc = "members" /\ frame'.pc # "idle") =>
          \E item \in frame.todo :
            /\ frame'.todo = frame.todo \ {item}
            /\ item[1] = frame.cur =>
                 kvo_observers'[frame.cur][item[2]] = frame.rev
            /\ frame.rev # kvo_observers[item[1]][item[2]]]_vars

C33_Witness ==
  /\ op.flushed /\ op.done /\ ~op.raised
  /\ kvo_changes = <<>>
  /\ \E k \in op.rechanged :
       \E m \in DOMAIN kvo_observers[k] : Notified(k, m) = 2

C38_ChangeLevelNotNegative ==
  /\ kvo_changeLevel >= 0
  /\ (op.name = "endPropertyChanges" /\ op.level0 = 0 /\ op.done)
       => kvo_changeLevel = 0

C38_Witness ==
  /\ op.name = "endPropertyChanges" /\ op.level0 = 0 /\ op.done
  /\ kvo_changeLevel = 0
  /\ kvo_revision > 0

\* C39: when a flush has returned normally the change level is the one at
\* which the flush started (the level of the call for set, propertyDidChange
\* and allPropertiesDidChange, zero for the flush of endPropertyChanges); a
\* change made at level zero after that enters a flush at once
C39_FlushRestoresLevel ==
  /\ (op.flushed /\ op.done /\ ~op.raised) =>
       kvo_changeLevel = IF op.name = "endPropertyChanges" THEN 0
                         ELSE op.level0
  /\ (op.name \in {"set", "propertyDidChange"} /\ op.level0 = 0
      /\ ~op.susp0 /\ kvo_revision # op.rev0 /\ ~op.done) =>
       (op.flushed /\ kvo_changeLevel = 1)
  /\ (op.name \in {"set", "propertyDidChange"} /\ op.level0 = 0
      /\ ~op.susp0 /\ kvo_revision # op.rev0) => op.flushed

C39_Witness ==
  /\ op.name = "set" /\ op.level0 = 0 /\ op.flushed /\ op.done
  /\ op.rev0 >= 1 /\ ~op.pending0
  /\ fired # EmptyBag
  /\ kvo_changeLevel = 0

\* C40: when an observer has thrown during a flush, the call that ran the
\* flush leaves the change level at the value it had when the flush
\* started, and a set made afterwards outside any batch enters a flush
C40_LevelRestoredAfterError ==
  /\ (op.flushed /\ op.done /\ op.raised) =>
       kvo_changeLevel = IF op.name = "endPropertyChanges" THEN 0
                         ELSE op.level0
  /\ (op.name = "set" /\ ~batch.open /\ kvo_revision # op.rev0) =>
       op.flushed

\* C35: an addObserver, removeObserver or registerDependentKey call on one
\* object leaves the observers, the observed keys, the dependents and the
\* cached dependents that every other object finds as they were
Others == ObjectNames \ {mutation'.object}

C35_RegistriesPrivate ==
  [][\A o \in Others : Seen(o)' = Seen(o)]_vars

\* the same for addObserver and removeObserver alone
ObserversPrivate ==
  [][mutation'.name \in {"addObserver", "removeObserver"} =>
       \A o \in Others : Seen(o)' = Seen(o)]_vars

\* C36: tryToHandleEvent calls at most one handler, also when the handler
\* called returns false and a later step of the resolution would find
\* another one; the statechart is sent stateWillTryToHandleEvent once before
\* the call and stateDidTryToHandleEvent once after it, both naming the
\* handler called, and neither when no handler is called
Bracketed(calls, handler) ==
  /\ Len(calls) = 3
  /\ calls[1].to = "stateWillTryToHandleEvent" /\ calls[1].handler = handler
  /\ calls[2].to = "handler" /\ calls[2].handler = handler
  /\ calls[3].to = "stateDidTryToHandleEvent" /\ calls[3].handler = handler

C36_OneHandlerBracketed ==
  /\ Cardinality({i \in DOMAIN handling.calls :
                    handling.calls[i].to = "handler"}) <= 1
  /\ handling.name # NoHandler => Bracketed(handling.calls, handling.name)
  /\ handling.name = NoHandler => handling.calls = <<>>
  /\ handling.calls # <<>> =>
       handling.calls[3].arg = (IF handling.ret THEN "true" ELSE "false")

C36_Witness ==
  /\ handling.via = "method"
  /\ handling.result = "false" /\ ~handling.ret
  /\ handling.event \in DOMAIN registeredStringEventHandlers
  /\ isFunction("unknownEvent")
  /\ Bracketed(handling.calls, handling.event)

\* C37: for every event name, respondsToEvent(event) is true exactly when
\* tryToHandleEvent(event) calls a handler of the state
C37_RespondsIffDispatches ==
  stateIsInitialized =>
    \A event \in Events :
      respondsToEvent(event)
        <=> tryToHandleEvent(event, "true").name # NoHandler

\* a transition is held up after the step; resumeGotoState is called
\* while one is held up; the step carries out the transition held up
HeldUp == suspended'.active
ResumeCalled ==
  /\ suspended.active
  /\ request'.op = "resumeGotoState"
  /\ request' # request \/ suspended' # suspended
Resumed == suspended.active /\ ~suspended'.active

WithHistory == {s \in DOMAIN substates : initialSubstate[s].kind = "history"}

\* the step is a call of gotoHistoryState that names the state and is
\* carried out
HistoryCalled(state) ==
  /\ request' # request
  /\ request'.op = "gotoHistoryState"
  /\ request'.requested /\ request'.enters # <<>>
  /\ getState(request'.state, request'.expr).ret = state

\* C32: a state with a history state notes, each time a transition exits
\* it, the substate that was current, and nothing at any other time;
\* gotoHistoryState of the state enters the substate noted last, which
\* becomes current, and the defaultState of the history state when the
\* state has not been exited
C32_HistoryReentered ==
  [][\A state \in WithHistory :
       /\ IF request' # request /\ state \in Range(request'.exits)
          THEN /\ state \in DOMAIN historyState'
               /\ isCurrentState(historyState'[state])
               /\ isAncestorOrSelf(state, historyState'[state])
          ELSE /\ (state \in DOMAIN historyState')
                    = (state \in DOMAIN historyState)
               /\ state \in DOMAIN historyState =>
                    historyState'[state] = historyState[state]
       /\ HistoryCalled(state) =>
            /\ request'.target =
                 IF state \in DOMAIN historyState THEN historyState[state]
                 ELSE initialSubstate[state].state
            /\ \E i \in DOMAIN request'.enters :
                 request'.enters[i] = request'.target
            /\ \A s \in DOMAIN substates :
                 s = request'.target => isCurrentState(s)']_vars

C32_Witness ==
  /\ request.op = "gotoHistoryState" /\ request.requested
  /\ request.from = <<"B", "bar">>
  /\ request.target = <<"A", "y">>
  /\ request.enters = << <<"A">>, <<"A", "y">> >>
  /\ isCurrentState(<<"A", "y">>)
  /\ initialSubstate[<<"A">>] = HistoryRef("x", <<"A", "x">>)

====
